---------------------------- MODULE Spec2Model ----------------------------
(***************************************************************************)
(* Transaction pool admission engine of sia-satellite                      *)
(* (modules/transactionpool accept path, src/modules/consensus/cache.go    *)
(* lines 171-589) together with the ledger interface it consumes.          *)
(*                                                                         *)
(* The pool state is the TransactionPool struct: transactionSets,          *)
(* transactionSetDiffs, knownObjects, transactionHeights,                  *)
(* transactionListSize and blockHeight.  The ledger is the set of          *)
(* confirmed transactions and the height of the tip.                       *)
(***************************************************************************)
EXTENDS Integers, Sequences, FiniteSets, TLC

VARIABLES
    transactionSets,      \* tp.transactionSets: SetID -> sequence of transactions
    transactionSetDiffs,  \* tp.transactionSetDiffs: SetID -> consensus change
    knownObjects,         \* tp.knownObjects: ObjectID -> SetID
    transactionHeights,   \* tp.transactionHeights: TransactionID -> height
    transactionListSize,  \* tp.transactionListSize
    blockHeight,          \* tp.blockHeight
    confirmed,            \* ledger: transactions confirmed on the current tip
    tip,                  \* ledger: height of the current tip
    applying,             \* ledger: the pooled set confirmed by the block being applied
    csMu,                 \* holders of the ledger's lock (LockedTryTransactionSet)
    outerMu,              \* holders of tp.outerMu
    innerMu,              \* holders of tp.innerMu
    task,                 \* per task: position in AcceptTransactionSet and its locals
    inFlight,             \* gateway: Broadcast calls started and not yet finished
    ret,                  \* the result handed back by the latest acceptTransactionSet
    cacheIndex,           \* cache.index: id -> slot
    cacheOutputs,         \* cache.outputs: slot -> the id and the value stored there
    cacheTip,             \* cache.tip: the slot written last
    cacheOrder,           \* history: the indexed entries in the order of their insertion
    cachePushed,          \* history: the ids pushed while fewer than CacheSize were
    cacheRet,             \* the latest cache operation and what it returned
    stopped,              \* tp.tg: the thread group has been stopped
    relay                 \* per task: the peer connection served by relayTransactionSet

poolVars == <<transactionSets, transactionSetDiffs, knownObjects,
              transactionHeights, transactionListSize>>
ledgerVars == <<confirmed, tip, blockHeight, applying>>
lockVars == <<csMu, outerMu, innerMu>>
cacheVars == <<cacheIndex, cacheOutputs, cacheTip, cacheOrder, cachePushed, cacheRet>>
relayVars == <<stopped, relay>>
admissionVars == <<poolVars, ledgerVars, lockVars, task, inFlight, ret>>
vars == <<transactionSets, transactionSetDiffs, knownObjects, transactionHeights,
          transactionListSize, blockHeight, confirmed, tip, applying,
          csMu, outerMu, innerMu, task, inFlight, ret,
          cacheIndex, cacheOutputs, cacheTip, cacheOrder, cachePushed, cacheRet,
          stopped, relay>>

---------------------------------------------------------------------------
(* Bounds of the model. *)

\* Longest candidate transaction set a caller submits.
MaxSetLen == 3
\* Number of blocks the ledger applies.
MaxHeight == 1
\* Number of tasks that submit concurrently.
NumTasks == 2
\* Longest candidate transaction set a concurrent task submits.
ConcMaxSetLen == 1
\* Number of Broadcast calls the gateway runs at a time.
MaxInFlight == 1
\* Number of slots of a ring cache (scoCacheSize, fcCacheSize, blockCacheSize).
CacheSize == 3

---------------------------------------------------------------------------
(* The transactions and ledger objects of the model. *)

Txns == {"A", "B", "C", "D", "N"}

\* A: spends u1, creates oA.          B: spends u2, creates oB.
\* C: spends oA (child of A).         D: spends u2 (double spend against B).
\* N: arbitrary data only, touches no object and depends on no transaction.
TxnInfo ==
    [t \in Txns |->
        CASE t = "A" -> [ins |-> {"u1"}, outs |-> {"oA"}, fee |-> 0,   size |-> 10]
          [] t = "B" -> [ins |-> {"u2"}, outs |-> {"oB"}, fee |-> 0,   size |-> 10]
          [] t = "C" -> [ins |-> {"oA"}, outs |-> {"oC"}, fee |-> 72,  size |-> 10]
          [] t = "D" -> [ins |-> {"u2"}, outs |-> {"oD"}, fee |-> 150, size |-> 20]
          [] t = "N" -> [ins |-> {},     outs |-> {},     fee |-> 0,   size |-> 10]]

\* Outputs that exist on the ledger before any transaction of the model.
Genesis == {"u1", "u2"}

\* Fixed order of the transactions, giving each one a code for serialization.
TxnOrder == <<"A", "B", "C", "D", "N">>

Range(s) == {s[i] : i \in DOMAIN s}

\* Sequences of pairwise distinct transactions of length 1..n.
RECURSIVE DistinctSeqs(_)
DistinctSeqs(n) ==
    IF n = 0 THEN {<<>>}
    ELSE LET shorter == DistinctSeqs(n - 1)
         IN  shorter \cup {Append(s, t) : s \in {x \in shorter : Len(x) = n - 1},
                                         t \in Txns}

Candidates == {s \in DistinctSeqs(MaxSetLen) :
                  Len(s) > 0 /\ Cardinality(Range(s)) = Len(s)}

---------------------------------------------------------------------------
(* Maps with a changing key set. *)

MapPut(f, k, v) == [x \in DOMAIN f \cup {k} |-> IF x = k THEN v ELSE f[x]]
MapPutAll(f, ks, v) == [x \in DOMAIN f \cup ks |-> IF x \in ks THEN v ELSE f[x]]
MapDel(f, ks) == [x \in DOMAIN f \ ks |-> f[x]]
EmptyMap == [x \in {} |-> 0]

---------------------------------------------------------------------------
(* Encoding, identifiers and sizes. *)

\* Length prefix written in front of an encoded transaction set (8 bytes).
PrefixLen == 8

RECURSIVE SumSizes(_, _)
SumSizes(ts, i) == IF i > Len(ts) THEN 0 ELSE TxnInfo[ts[i]].size + SumSizes(ts, i + 1)

\* types.EncodedLen(transactionSet(ts)): the prefix followed by every transaction.
EncodedLen(ts) == PrefixLen + SumSizes(ts, 1)

TxnCode(t) == CHOOSE i \in DOMAIN TxnOrder : TxnOrder[i] = t
HashBase == Len(TxnOrder) + 1

RECURSIVE HashFrom(_, _, _)
HashFrom(ts, i, h) ==
    IF i > Len(ts) THEN h ELSE HashFrom(ts, i + 1, h * HashBase + TxnCode(ts[i]))

\* The hash of the encoding of a set (prefix, then the transactions in order).
\* The numeral is injective on sequences, as a collision-free hash is.
SetID(ts) == HashFrom(ts, 1, Len(ts))

\* relatedObjectIDs: every object a transaction of ts spends or creates.
relatedObjectIDs(ts) ==
    UNION {TxnInfo[ts[i]].ins \cup TxnInfo[ts[i]].outs : i \in DOMAIN ts}

RECURSIVE SumFees(_, _)
SumFees(ts, i) == IF i > Len(ts) THEN 0 ELSE TxnInfo[ts[i]].fee + SumFees(ts, i + 1)

\* The loop adding up txn.MinerFees over the set.
setFees(ts) == SumFees(ts, 1)

---------------------------------------------------------------------------
(* Admission policy. *)

errEmptySet == "transaction set is empty"
errLowMinerFees == "transaction set needs more miner fees to be accepted"
ErrDuplicateTransactionSet == "transaction set contains only duplicate transactions"
ErrLargeTransactionSet == "transaction set is too large"
ErrInvalidSet == "provided transaction set is invalid"
ErrConflictInvalid == "provided transaction set has prereqs, but is still invalid"

\* Pool occupancy below which no fee is asked, the soft target of the pool
\* size, the exponent of the fee curve, the fee per byte at the target and the
\* largest standard set, scaled to the sizes of TxnInfo.
TransactionPoolSizeForFee == 46
TransactionPoolSizeTarget == 60
TransactionPoolExponentiation == 3
BaseFeePerByte == 10
TransactionSetSizeLimit == 70

RECURSIVE Pow(_, _)
Pow(b, e) == IF e = 0 THEN 1 ELSE b * Pow(b, e - 1)

\* base fee * (size / target) ^ exponent, cut to a whole number of currency.
requiredFeesToExtendTpoolAtSize(size) ==
    (BaseFeePerByte * Pow(size, TransactionPoolExponentiation))
        \div Pow(TransactionPoolSizeTarget, TransactionPoolExponentiation)

\* Variant: a pool filled exactly to the threshold is still free of fees.
requiredFeesFreeAtThreshold ==
    IF transactionListSize <= TransactionPoolSizeForFee
    THEN 0
    ELSE requiredFeesToExtendTpoolAtSize(transactionListSize)

requiredFeesToExtendTpool ==
    IF transactionListSize < TransactionPoolSizeForFee
    THEN 0
    ELSE requiredFeesToExtendTpoolAtSize(transactionListSize)

\* Size rule of standardness: the encoded set may not exceed the limit.
isStandardTransactionSet(ts) ==
    IF EncodedLen(ts) > TransactionSetSizeLimit
    THEN [size |-> 0, err |-> ErrLargeTransactionSet]
    ELSE [size |-> EncodedLen(ts), err |-> ""]

\* Variant: the check that the set is already known is left out.
checkCompositionSkipsKnown(ts) == isStandardTransactionSet(ts)

checkTransactionSetComposition(ts) ==
    IF SetID(ts) \in DOMAIN transactionSets
    THEN [size |-> 0, err |-> ErrDuplicateTransactionSet]
    ELSE isStandardTransactionSet(ts)

---------------------------------------------------------------------------
(* The ledger: confirmed lookup and the validation callback. *)

transactionConfirmed(t) == t \in confirmed

Spent(txs) == UNION {TxnInfo[t].ins : t \in txs}
Created(txs) == UNION {TxnInfo[t].outs : t \in txs}

\* Unspent objects on the current tip.
Unspent == (Genesis \cup Created(confirmed)) \ Spent(confirmed)

RECURSIVE ValidFrom(_, _, _)
ValidFrom(ts, i, avail) ==
    IF i > Len(ts) THEN TRUE
    ELSE /\ TxnInfo[ts[i]].ins \subseteq avail
         /\ TxnInfo[ts[i]].outs \cap avail = {}
         /\ ValidFrom(ts, i + 1, (avail \ TxnInfo[ts[i]].ins) \cup TxnInfo[ts[i]].outs)

\* txnFn: the set is valid if every transaction spends objects that are unspent
\* on the tip or were created earlier in the set.  The change lists every object
\* spent or created, and records the set and the tip it was computed for.
txnFn(ts) ==
    IF ValidFrom(ts, 1, Unspent)
    THEN [ok |-> TRUE,
          cc |-> [ids |-> relatedObjectIDs(ts), txns |-> ts, tip |-> tip]]
    ELSE [ok |-> FALSE, cc |-> [ids |-> {}, txns |-> <<>>, tip |-> tip]]

---------------------------------------------------------------------------
(* Object index lookups and the outcome of one acceptTransactionSet call. *)

\* tp.transactionSets[id]; a missing key reads as the empty set of transactions.
SetTxns(id) == IF id \in DOMAIN transactionSets THEN transactionSets[id] ELSE <<>>

\* Variant: only the objects a set creates are looked up, not the ones it spends.
FindConflictsCreatedOnly(oids) ==
    {knownObjects[o] : o \in (oids \ Genesis) \cap DOMAIN knownObjects}

\* The loop over oids collecting tp.knownObjects[oid] for every known object.
FindConflicts(oids) == {knownObjects[o] : o \in oids \cap DOMAIN knownObjects}

\* All orders in which a map of the given keys may be iterated.
Orders(S) == {o \in [1..Cardinality(S) -> S] : Range(o) = S}

RECURSIVE Concat(_, _)
Concat(order, i) ==
    IF i > Len(order) THEN <<>> ELSE SetTxns(order[i]) \o Concat(order, i + 1)

NoCC == [ids |-> {}, txns |-> <<>>, tip |-> 0]

\* An accepted call: the path taken (depth counts the entries into
\* handleConflicts), the set to install, the conflicting sets it supersedes,
\* the consensus change, the objects to index, and the number of calls of
\* txnFn the call has made.
Accepted(path, depth, ts, superset, supersetMap, cc, oids) ==
    [err |-> "", path |-> path, depth |-> depth, dedup |-> ts, superset |-> superset,
     supersetMap |-> supersetMap, cc |-> cc, oids |-> oids, validated |-> 1]

\* A refused call: the error, and the conflicting sets found when it was raised.
Refused(e, path, depth, supersetMap) ==
    [err |-> e, path |-> path, depth |-> depth, dedup |-> <<>>, superset |-> <<>>,
     supersetMap |-> supersetMap, cc |-> NoCC, oids |-> {}, validated |-> 0]

\* A call refused because txnFn, called once, returned an error.
RefusedByLedger(e, path, depth, supersetMap) ==
    [Refused(e, path, depth, supersetMap) EXCEPT !.validated = 1]

\* conflictMap: transaction id -> conflicting set; iterating the conflicts in the
\* given order, a later set overwrites an earlier one.
conflictMap(order) ==
    [t \in UNION {Range(SetTxns(order[i])) : i \in DOMAIN order} |->
        order[CHOOSE i \in DOMAIN order :
                 /\ t \in Range(SetTxns(order[i]))
                 /\ \A j \in DOMAIN order : j > i => t \notin Range(SetTxns(order[j]))]]

\* Variant: the first transaction of the candidate is put in front of the
\* conflicting sets.
MergeOutcomeHeadFirst(dedupSet, order, depth) ==
    LET superset == <<Head(dedupSet)>> \o Concat(order, 1) \o Tail(dedupSet)
        comp == checkTransactionSetComposition(superset)
        requiredFees == requiredFeesToExtendTpool * comp.size
        v == txnFn(superset)
    IN  IF comp.err # "" THEN Refused(comp.err, "merge", depth, Range(order))
        ELSE IF requiredFees > setFees(superset)
        THEN Refused(errLowMinerFees, "merge", depth, Range(order))
        ELSE IF ~v.ok THEN RefusedByLedger(ErrConflictInvalid, "merge", depth, Range(order))
        ELSE Accepted("merge", depth, dedupSet, superset, Range(order), v.cc, v.cc.ids)

\* Variant: the superset is the candidate remainder alone.
MergeOutcomeDropsPooled(dedupSet, order, depth) ==
    LET superset == dedupSet
        comp == checkTransactionSetComposition(superset)
        requiredFees == requiredFeesToExtendTpool * comp.size
        v == txnFn(superset)
    IN  IF comp.err # "" THEN Refused(comp.err, "merge", depth, Range(order))
        ELSE IF requiredFees > setFees(superset)
        THEN Refused(errLowMinerFees, "merge", depth, Range(order))
        ELSE IF ~v.ok THEN RefusedByLedger(ErrConflictInvalid, "merge", depth, Range(order))
        ELSE Accepted("merge", depth, dedupSet, superset, Range(order), v.cc, v.cc.ids)

\* Variant: a superset the ledger refuses is validated a second time.
MergeOutcomeRetries(dedupSet, order, depth) ==
    LET superset == Concat(order, 1) \o dedupSet
        comp == checkTransactionSetComposition(superset)
        requiredFees == requiredFeesToExtendTpool * comp.size
        v == txnFn(superset)
    IN  IF comp.err # "" THEN Refused(comp.err, "merge", depth, Range(order))
        ELSE IF requiredFees > setFees(superset)
        THEN Refused(errLowMinerFees, "merge", depth, Range(order))
        ELSE IF ~v.ok
        THEN [RefusedByLedger(ErrConflictInvalid, "merge", depth, Range(order))
                  EXCEPT !.validated = 2]
        ELSE Accepted("merge", depth, dedupSet, superset, Range(order), v.cc, v.cc.ids)

\* Variant: the fee asked of a superset is the one of the candidate remainder.
MergeOutcomePricesRemainder(dedupSet, order, depth) ==
    LET superset == Concat(order, 1) \o dedupSet
        comp == checkTransactionSetComposition(superset)
        requiredFees == requiredFeesToExtendTpool * EncodedLen(dedupSet)
        v == txnFn(superset)
    IN  IF comp.err # "" THEN Refused(comp.err, "merge", depth, Range(order))
        ELSE IF requiredFees > setFees(dedupSet)
        THEN Refused(errLowMinerFees, "merge", depth, Range(order))
        ELSE IF ~v.ok THEN RefusedByLedger(ErrConflictInvalid, "merge", depth, Range(order))
        ELSE Accepted("merge", depth, dedupSet, superset, Range(order), v.cc, v.cc.ids)

\* The merge of handleConflicts (cache.go 343-379) for one iteration order of
\* supersetMap: composition, fees and validity of the superset as a whole.
MergeOutcome(dedupSet, order, depth) ==
    LET superset == Concat(order, 1) \o dedupSet
        comp == checkTransactionSetComposition(superset)
        requiredFees == requiredFeesToExtendTpool * comp.size
        v == txnFn(superset)
    IN  IF comp.err # "" THEN Refused(comp.err, "merge", depth, Range(order))
        ELSE IF requiredFees > setFees(superset)
        THEN Refused(errLowMinerFees, "merge", depth, Range(order))
        ELSE IF ~v.ok THEN RefusedByLedger(ErrConflictInvalid, "merge", depth, Range(order))
        ELSE Accepted("merge", depth, dedupSet, superset, Range(order), v.cc, v.cc.ids)

\* Variant: after pruning, the merge goes on with the conflicts it was given.
handleConflictsKeepsConflicts(ts, conflicts, depth) ==
    LET pooled == UNION {Range(SetTxns(c)) : c \in conflicts}
        dedupSet == SelectSeq(ts, LAMBDA t : t \notin pooled)
    IN  IF Len(dedupSet) = 0
        THEN {Refused(ErrDuplicateTransactionSet, "merge", depth, {})}
        ELSE UNION {
                 {MergeOutcome(dedupSet, order, depth) :
                      order \in Orders(Range(conflictMap(fill)))}
                 : fill \in Orders(conflicts)}

\* Variant: each pass drops only the first pooled transaction of the input.
RECURSIVE handleConflictsPrunesOne(_, _, _)
handleConflictsPrunesOne(ts, conflicts, depth) ==
    LET pooled == UNION {Range(SetTxns(c)) : c \in conflicts}
        dups == {i \in DOMAIN ts : ts[i] \in pooled}
        first == CHOOSE i \in dups : \A j \in dups : i <= j
        dedupSet == IF dups = {} THEN ts
                    ELSE SubSeq(ts, 1, first - 1) \o SubSeq(ts, first + 1, Len(ts))
    IN  IF Len(dedupSet) = 0
        THEN {Refused(ErrDuplicateTransactionSet, "merge", depth, {})}
        ELSE IF Len(dedupSet) < Len(ts)
        THEN handleConflictsPrunesOne(dedupSet,
                                      FindConflicts(relatedObjectIDs(dedupSet)),
                                      depth + 1)
        ELSE UNION {
                 {MergeOutcome(dedupSet, order, depth) :
                      order \in Orders(Range(conflictMap(fill)))}
                 : fill \in Orders(conflicts)}

\* Variant: after pruning, the conflicts of the pruned input are added to the
\* conflicts the call was given.
RECURSIVE handleConflictsAddsConflicts(_, _, _)
handleConflictsAddsConflicts(ts, conflicts, depth) ==
    LET pooled == UNION {Range(SetTxns(c)) : c \in conflicts}
        dedupSet == SelectSeq(ts, LAMBDA t : t \notin pooled)
    IN  IF Len(dedupSet) = 0
        THEN {Refused(ErrDuplicateTransactionSet, "merge", depth, {})}
        ELSE IF Len(dedupSet) < Len(ts)
        THEN handleConflictsAddsConflicts(
                 dedupSet, conflicts \cup FindConflicts(relatedObjectIDs(dedupSet)),
                 depth + 1)
        ELSE UNION {
                 {MergeOutcome(dedupSet, order, depth) :
                      order \in Orders(Range(conflictMap(fill)))}
                 : fill \in Orders(conflicts)}

\* Variant: an input pruned to nothing is not refused as a duplicate.
RECURSIVE handleConflictsMergesEmpty(_, _, _)
handleConflictsMergesEmpty(ts, conflicts, depth) ==
    LET pooled == UNION {Range(SetTxns(c)) : c \in conflicts}
        dedupSet == SelectSeq(ts, LAMBDA t : t \notin pooled)
    IN  IF Len(dedupSet) < Len(ts)
        THEN handleConflictsMergesEmpty(
                 dedupSet, FindConflicts(relatedObjectIDs(dedupSet)), depth + 1)
        ELSE UNION {
                 {MergeOutcome(dedupSet, order, depth) :
                      order \in Orders(Range(conflictMap(fill)))}
                 : fill \in Orders(conflicts)}

\* handleConflicts: the outcomes the call can have, one per iteration order of
\* the maps it ranges over.
RECURSIVE handleConflicts(_, _, _)
handleConflicts(ts, conflicts, depth) ==
    LET pooled == UNION {Range(SetTxns(c)) : c \in conflicts}
        dedupSet == SelectSeq(ts, LAMBDA t : t \notin pooled)
    IN  IF Len(dedupSet) = 0
        THEN {Refused(ErrDuplicateTransactionSet, "merge", depth, {})}
        ELSE IF Len(dedupSet) < Len(ts)
        THEN handleConflicts(dedupSet, FindConflicts(relatedObjectIDs(dedupSet)),
                             depth + 1)
        ELSE UNION {
                 {MergeOutcome(dedupSet, order, depth) :
                      order \in Orders(Range(conflictMap(fill)))}
                 : fill \in Orders(conflicts)}

\* Variant: the filter keeps every transaction.
UnconfirmedKeepsAll(ts) == ts

\* The confirmed filter at the head of acceptTransactionSet.
Unconfirmed(ts) == SelectSeq(ts, LAMBDA t : ~transactionConfirmed(t))

\* Variant: fees equal to the required amount are refused as well.
acceptFilteredEqualRefused(ts) ==
    LET comp == checkTransactionSetComposition(ts)
        requiredFees == requiredFeesToExtendTpool * comp.size
        oids == relatedObjectIDs(ts)
        conflicts == FindConflicts(oids)
        v == txnFn(ts)
    IN  IF comp.err # "" THEN {Refused(comp.err, "direct", 0, {})}
        ELSE IF requiredFees >= setFees(ts)
        THEN {Refused(errLowMinerFees, "direct", 0, {})}
        ELSE IF conflicts # {} THEN handleConflicts(ts, conflicts, 1)
        ELSE IF ~v.ok THEN {RefusedByLedger(ErrInvalidSet, "direct", 0, {})}
        ELSE {Accepted("direct", 0, ts, ts, {}, v.cc, oids)}

\* acceptTransactionSet after the confirmed filter: composition, fees,
\* conflict detection, then validation or the conflict handler.
acceptFiltered(ts) ==
    LET comp == checkTransactionSetComposition(ts)
        requiredFees == requiredFeesToExtendTpool * comp.size
        oids == relatedObjectIDs(ts)
        conflicts == FindConflicts(oids)
        v == txnFn(ts)
    IN  IF comp.err # "" THEN {Refused(comp.err, "direct", 0, {})}
        ELSE IF requiredFees > setFees(ts)
        THEN {Refused(errLowMinerFees, "direct", 0, {})}
        ELSE IF conflicts # {} THEN handleConflicts(ts, conflicts, 1)
        ELSE IF ~v.ok THEN {RefusedByLedger(ErrInvalidSet, "direct", 0, {})}
        ELSE {Accepted("direct", 0, ts, ts, {}, v.cc, oids)}

\* Variant: the length of the candidate is not tested before the filter.
acceptTransactionSetSkipsLengthTest(ts) ==
    IF Len(Unconfirmed(ts)) = 0
    THEN {Refused(ErrDuplicateTransactionSet, "direct", 0, {})}
    ELSE acceptFiltered(Unconfirmed(ts))

\* Variant: a set the filter has emptied goes on to the other checks.
acceptTransactionSetAdmitsEmptied(ts) ==
    IF Len(ts) = 0 THEN {Refused(errEmptySet, "direct", 0, {})}
    ELSE acceptFiltered(Unconfirmed(ts))

acceptTransactionSet(ts) ==
    IF Len(ts) = 0 THEN {Refused(errEmptySet, "direct", 0, {})}
    ELSE IF Len(Unconfirmed(ts)) = 0
    THEN {Refused(ErrDuplicateTransactionSet, "direct", 0, {})}
    ELSE acceptFiltered(Unconfirmed(ts))

---------------------------------------------------------------------------
(* Mutation of the pool. *)

RECURSIVE SumEncodedLen(_)
SumEncodedLen(ids) ==
    IF ids = {} THEN 0
    ELSE LET c == CHOOSE x \in ids : TRUE
         IN  EncodedLen(SetTxns(c)) + SumEncodedLen(ids \ {c})

\* Variant: the height is recorded anew for every transaction of the set.
RecordHeightsOverwrites(ts) ==
    [t \in DOMAIN transactionHeights \cup Range(ts) |->
        IF t \in Range(ts) THEN blockHeight ELSE transactionHeights[t]]

\* The loop recording tp.blockHeight for every transaction not seen before.
RecordHeights(ts) ==
    [t \in DOMAIN transactionHeights \cup Range(ts) |->
        IF t \in DOMAIN transactionHeights THEN transactionHeights[t] ELSE blockHeight]

\* Variant: the bytes of the removed conflicts are not taken off the count.
InstallSupersetKeepsBytes(plan) ==
    LET setID == SetID(plan.superset)
    IN  /\ transactionSets' =
               MapPut(MapDel(transactionSets, plan.supersetMap), setID, plan.superset)
        /\ transactionSetDiffs' =
               MapPut(MapDel(transactionSetDiffs, plan.supersetMap), setID, plan.cc)
        /\ knownObjects' = MapPutAll(knownObjects, plan.cc.ids, setID)
        /\ transactionListSize' = transactionListSize + EncodedLen(plan.superset)
        /\ transactionHeights' = RecordHeights(plan.superset)

\* Variant: only the objects of the candidate remainder are indexed.
InstallSupersetIndexesRemainder(plan) ==
    LET setID == SetID(plan.superset)
    IN  /\ transactionSets' =
               MapPut(MapDel(transactionSets, plan.supersetMap), setID, plan.superset)
        /\ transactionSetDiffs' =
               MapPut(MapDel(transactionSetDiffs, plan.supersetMap), setID, plan.cc)
        /\ knownObjects' = MapPutAll(knownObjects, relatedObjectIDs(plan.dedup), setID)
        /\ transactionListSize' =
               (transactionListSize - SumEncodedLen(plan.supersetMap))
                   + EncodedLen(plan.superset)
        /\ transactionHeights' = RecordHeights(plan.superset)

\* Variant: the diffs of the removed conflicts are left behind.
InstallSupersetKeepsDiffs(plan) ==
    LET setID == SetID(plan.superset)
    IN  /\ transactionSets' =
               MapPut(MapDel(transactionSets, plan.supersetMap), setID, plan.superset)
        /\ transactionSetDiffs' = MapPut(transactionSetDiffs, setID, plan.cc)
        /\ knownObjects' = MapPutAll(knownObjects, plan.cc.ids, setID)
        /\ transactionListSize' =
               (transactionListSize - SumEncodedLen(plan.supersetMap))
                   + EncodedLen(plan.superset)
        /\ transactionHeights' = RecordHeights(plan.superset)

\* Variant: only the objects the superset spends are indexed.
InstallSupersetIndexesSpent(plan) ==
    LET setID == SetID(plan.superset)
    IN  /\ transactionSets' =
               MapPut(MapDel(transactionSets, plan.supersetMap), setID, plan.superset)
        /\ transactionSetDiffs' =
               MapPut(MapDel(transactionSetDiffs, plan.supersetMap), setID, plan.cc)
        /\ knownObjects' =
               MapPutAll(knownObjects, Spent(Range(plan.superset)), setID)
        /\ transactionListSize' =
               (transactionListSize - SumEncodedLen(plan.supersetMap))
                   + EncodedLen(plan.superset)
        /\ transactionHeights' = RecordHeights(plan.superset)

\* handleConflicts, cache.go 381-410: remove the conflicts, add the superset.
InstallSuperset(plan) ==
    LET setID == SetID(plan.superset)
    IN  /\ transactionSets' =
               MapPut(MapDel(transactionSets, plan.supersetMap), setID, plan.superset)
        /\ transactionSetDiffs' =
               MapPut(MapDel(transactionSetDiffs, plan.supersetMap), setID, plan.cc)
        /\ knownObjects' = MapPutAll(knownObjects, plan.cc.ids, setID)
        /\ transactionListSize' =
               (transactionListSize - SumEncodedLen(plan.supersetMap))
                   + EncodedLen(plan.superset)
        /\ transactionHeights' = RecordHeights(plan.superset)

\* Variant: the sets that hold a transaction of the new set are removed.
InstallSetEvictsSharing(plan) ==
    LET setID == SetID(plan.superset)
        sharing == {id \in DOMAIN transactionSets :
                       Range(transactionSets[id]) \cap Range(plan.superset) # {}}
    IN  /\ transactionSets' =
               MapPut(MapDel(transactionSets, sharing), setID, plan.superset)
        /\ transactionSetDiffs' =
               MapPut(MapDel(transactionSetDiffs, sharing), setID, plan.cc)
        /\ knownObjects' = MapPutAll(knownObjects, plan.oids, setID)
        /\ transactionListSize' =
               (transactionListSize - SumEncodedLen(sharing))
                   + EncodedLen(plan.superset)
        /\ transactionHeights' = RecordHeights(plan.superset)

\* Variant: only the objects the new set creates are indexed.
InstallSetIndexesCreated(plan) ==
    LET setID == SetID(plan.superset)
    IN  /\ transactionSets' = MapPut(transactionSets, setID, plan.superset)
        /\ transactionSetDiffs' = MapPut(transactionSetDiffs, setID, plan.cc)
        /\ knownObjects' =
               MapPutAll(knownObjects, Created(Range(plan.superset)), setID)
        /\ transactionListSize' = transactionListSize + EncodedLen(plan.superset)
        /\ transactionHeights' = RecordHeights(plan.superset)

\* acceptTransactionSet, cache.go 473-488: add the set to the pool.
InstallSet(plan) ==
    LET setID == SetID(plan.superset)
    IN  /\ transactionSets' = MapPut(transactionSets, setID, plan.superset)
        /\ transactionSetDiffs' = MapPut(transactionSetDiffs, setID, plan.cc)
        /\ knownObjects' = MapPutAll(knownObjects, plan.oids, setID)
        /\ transactionListSize' = transactionListSize + EncodedLen(plan.superset)
        /\ transactionHeights' = RecordHeights(plan.superset)

\* Variant: the conflict handler removes the conflicts before it checks the
\* superset, so a refused superset leaves them removed.
CommitEvictsBeforeCheck(plan) ==
    IF plan.err # "" /\ plan.supersetMap # {}
    THEN /\ transactionSets' = MapDel(transactionSets, plan.supersetMap)
         /\ transactionSetDiffs' = MapDel(transactionSetDiffs, plan.supersetMap)
         /\ transactionListSize' = transactionListSize - SumEncodedLen(plan.supersetMap)
         /\ UNCHANGED <<knownObjects, transactionHeights>>
    ELSE IF plan.err # "" THEN UNCHANGED poolVars
    ELSE IF plan.path = "merge" THEN InstallSuperset(plan)
    ELSE InstallSet(plan)

\* The pool after a call with the given outcome.  An error is returned before
\* anything is written; the conflict handler and the direct path each write
\* the pool in their own way.
Commit(plan) ==
    IF plan.err # "" THEN UNCHANGED poolVars
    ELSE IF plan.path = "merge" THEN InstallSuperset(plan)
    ELSE InstallSet(plan)

---------------------------------------------------------------------------
(* The ring caches of the consensus package (cache.go 1-169).  The three
   caches, of Siacoin outputs, of file contracts and of processed blocks, have
   the same code; one cache of CacheSize slots stands for each of them. *)

Slots == 0..(CacheSize - 1)

\* The ids pushed and looked up.  ZeroID is the id of all zero bytes, the
\* value of the id field of a slot that has not been written.
ZeroID == 0
CacheIDs == 0..CacheSize

\* The values stored, and the zero value Lookup returns for a missing id.
ZeroValue == "zero"
CacheValues == {"v", "w"}

\* siacoinOutputInfo{}: a slot as make() leaves it.
ZeroInfo == [id |-> ZeroID, sco |-> ZeroValue]

NoOp == [op |-> "none", id |-> ZeroID, sco |-> ZeroValue, ok |-> FALSE, evicted |-> {}]

\* A slot that no longer is as make() left it.
Written(i) == cacheOutputs[i] # ZeroInfo

\* cache.Lookup(id)
Lookup(id) ==
    IF id \notin DOMAIN cacheIndex
    THEN [sco |-> ZeroValue, ok |-> FALSE]
    ELSE [sco |-> cacheOutputs[cacheIndex[id]].sco, ok |-> TRUE]

\* History kept next to the cache: the ids pushed since creation, each with
\* the value of its first Push, kept as long as fewer than CacheSize distinct
\* ids have been pushed; after that only the fact is kept.
NothingPushed == [full |-> FALSE, first |-> EmptyMap]
RecordPush(id, sco) ==
    IF cachePushed.full \/ id \in DOMAIN cachePushed.first
    THEN cachePushed
    ELSE IF Cardinality(DOMAIN cachePushed.first) + 1 >= CacheSize
         THEN [full |-> TRUE, first |-> EmptyMap]
         ELSE [full |-> FALSE, first |-> MapPut(cachePushed.first, id, sco)]

\* History kept next to the cache: the entries of the index in the order of
\* their insertion, each with the value it was inserted with.  present is the
\* domain of the index after the Push.
RecordOrder(id, sco, present) ==
    Append(SelectSeq(cacheOrder, LAMBDA e : e.id \in present /\ e.id # id),
           [id |-> id, sco |-> sco])

\* Variant: Push of an id that is present stores the new value in its slot.
PushOverwrites(id, sco) ==
    LET t == IF cacheTip + 1 >= CacheSize THEN 0 ELSE cacheTip + 1
        old == cacheOutputs[t].id
    IN  /\ IF id \in DOMAIN cacheIndex
           THEN /\ cacheOutputs' =
                       [cacheOutputs EXCEPT ![cacheIndex[id]] = [id |-> id, sco |-> sco]]
                /\ UNCHANGED <<cacheIndex, cacheTip, cacheOrder>>
           ELSE /\ cacheTip' = t
                /\ cacheIndex' = MapPut(MapDel(cacheIndex, {old}), id, t)
                /\ cacheOutputs' = [cacheOutputs EXCEPT ![t] = [id |-> id, sco |-> sco]]
                /\ cacheOrder' = RecordOrder(id, sco, DOMAIN cacheIndex')
        /\ cachePushed' = RecordPush(id, sco)
        /\ cacheRet' = [op |-> "push", id |-> id, sco |-> sco,
                        ok |-> id \notin DOMAIN cacheIndex,
                        evicted |-> DOMAIN cacheIndex \ DOMAIN cacheIndex']
        /\ UNCHANGED <<admissionVars, relayVars>>

\* Variant: a full cache reuses the slot written last instead of moving on.
PushReusesTip(id, sco) ==
    LET t == IF Cardinality(DOMAIN cacheIndex) >= CacheSize
             THEN cacheTip
             ELSE IF cacheTip + 1 >= CacheSize THEN 0 ELSE cacheTip + 1
        old == cacheOutputs[t].id
    IN  /\ IF id \in DOMAIN cacheIndex
           THEN UNCHANGED <<cacheIndex, cacheOutputs, cacheTip, cacheOrder>>
           ELSE /\ cacheTip' = t
                /\ cacheIndex' = MapPut(MapDel(cacheIndex, {old}), id, t)
                /\ cacheOutputs' = [cacheOutputs EXCEPT ![t] = [id |-> id, sco |-> sco]]
                /\ cacheOrder' = RecordOrder(id, sco, DOMAIN cacheIndex')
        /\ cachePushed' = RecordPush(id, sco)
        /\ cacheRet' = [op |-> "push", id |-> id, sco |-> sco,
                        ok |-> id \notin DOMAIN cacheIndex,
                        evicted |-> DOMAIN cacheIndex \ DOMAIN cacheIndex']
        /\ UNCHANGED <<admissionVars, relayVars>>

\* cache.Push(id, sco): nothing is done for an id that is present; otherwise
\* the tip moves on by one slot, wrapping at the end of the array, the id that
\* slot held leaves the index, and the slot and the index take the new entry.
Push(id, sco) ==
    LET t == IF cacheTip + 1 >= CacheSize THEN 0 ELSE cacheTip + 1
        old == cacheOutputs[t].id
    IN  /\ IF id \in DOMAIN cacheIndex
           THEN UNCHANGED <<cacheIndex, cacheOutputs, cacheTip, cacheOrder>>
           ELSE /\ cacheTip' = t
                /\ cacheIndex' = MapPut(MapDel(cacheIndex, {old}), id, t)
                /\ cacheOutputs' = [cacheOutputs EXCEPT ![t] = [id |-> id, sco |-> sco]]
                /\ cacheOrder' = RecordOrder(id, sco, DOMAIN cacheIndex')
        /\ cachePushed' = RecordPush(id, sco)
        /\ cacheRet' = [op |-> "push", id |-> id, sco |-> sco,
                        ok |-> id \notin DOMAIN cacheIndex,
                        evicted |-> DOMAIN cacheIndex \ DOMAIN cacheIndex']
        /\ UNCHANGED <<admissionVars, relayVars>>

\* A caller looks an id up and takes the result.
LookupCall(id) ==
    /\ cacheRet' = [op |-> "lookup", id |-> id, sco |-> Lookup(id).sco,
                    ok |-> Lookup(id).ok, evicted |-> {}]
    /\ UNCHANGED <<cacheIndex, cacheOutputs, cacheTip, cacheOrder, cachePushed>>
    /\ UNCHANGED <<admissionVars, relayVars>>

---------------------------------------------------------------------------
(* Calls made one at a time. *)

Idle == [ts |-> <<>>, again |-> FALSE, out |-> Refused("", "idle", 0, {})]

Inputs == Candidates \cup {<<>>}

Tasks == 1..NumTasks
\* The ledger's block application and a status query, as lock holders.
Ledger == NumTasks + 1
Reader == NumTasks + 2

\* A task outside submitTransactionSet.
\* A task outside AcceptTransactionSet.  Inside, a task keeps its position,
\* the candidate and the outcome of acceptTransactionSet while the pool is
\* being written, whether the call succeeded, whether the subscribers were
\* notified, and the number of Broadcast calls it has started.
Resting ==
    [pc |-> "idle", ts |-> <<>>, plan |-> Idle.out, ok |-> TRUE,
     notified |-> FALSE, sent |-> 0]

\* A task that is in neither entry point: no peer connection is served, no
\* watcher runs, nothing has been read and submitTransactionSet was not called.
NoConn ==
    [pc |-> "none", conn |-> "none", watcher |-> "none", ts |-> <<>>, n |-> 0,
     calls |-> 0, err |-> ""]

\* The id no set has: the hash of the empty encoding.
NoSet == SetID(<<>>)

Init ==
    /\ transactionSets = EmptyMap
    /\ transactionSetDiffs = EmptyMap
    /\ knownObjects = EmptyMap
    /\ transactionHeights = EmptyMap
    /\ transactionListSize = 0
    /\ blockHeight = 0
    /\ confirmed = {}
    /\ tip = 0
    /\ applying = NoSet
    /\ csMu = {}
    /\ outerMu = {}
    /\ innerMu = {}
    /\ task = [p \in Tasks |-> Resting]
    /\ inFlight = 0
    /\ ret = Idle
    /\ cacheIndex = EmptyMap
    /\ cacheOutputs = [i \in Slots |-> ZeroInfo]
    /\ cacheTip = 0
    /\ cacheOrder = <<>>
    /\ cachePushed = NothingPushed
    /\ cacheRet = NoOp
    /\ stopped = FALSE
    /\ relay = [p \in Tasks |-> NoConn]

\* One whole acceptTransactionSet(ts, txnFn) under the locks of
\* submitTransactionSet.  A caller either submits anew or repeats the set it
\* has just had accepted.  ret keeps the outcome, the candidate of an accepted
\* call, and whether the call repeated the candidate accepted just before.
Submit(ts) ==
    /\ ret = Idle \/ (ret.out.err = "" /\ ret.ts = ts)
    /\ \E plan \in acceptTransactionSet(ts) :
          /\ Commit(plan)
          /\ ret' = [ts |-> IF plan.err = "" THEN ts ELSE <<>>,
                     again |-> (ret # Idle), out |-> plan]
    /\ UNCHANGED <<cacheVars, relayVars, ledgerVars, lockVars, task, inFlight>>

\* The caller takes the result.
Return ==
    /\ ret # Idle
    /\ ret' = Idle
    /\ UNCHANGED <<cacheVars, relayVars, poolVars, ledgerVars, lockVars, task, inFlight>>

\* The ledger moves its tip: a block confirms the pooled set id (or no pooled
\* set when id is NoSet).
LedgerApply(id) ==
    /\ tip < MaxHeight
    /\ tip' = tip + 1
    /\ confirmed' = confirmed \cup Range(SetTxns(id))

\* The pool follows the new tip: every set holding a transaction the block
\* confirmed leaves the pool with its diff, its bytes and its objects.
PoolProcessChange(id, height) ==
    LET conf == confirmed \cup Range(SetTxns(id))
        gone == {i \in DOMAIN transactionSets : Range(transactionSets[i]) \cap conf # {}}
    IN  /\ blockHeight' = height
        /\ transactionSets' = MapDel(transactionSets, gone)
        /\ transactionSetDiffs' = MapDel(transactionSetDiffs, gone)
        /\ knownObjects' =
               [o \in {x \in DOMAIN knownObjects : knownObjects[x] \notin gone} |->
                   knownObjects[o]]
        /\ transactionListSize' = transactionListSize - SumEncodedLen(gone)
        /\ UNCHANGED transactionHeights

\* A block is applied between two calls.
ApplyBlock(id) ==
    /\ ret = Idle
    /\ LedgerApply(id)
    /\ PoolProcessChange(id, tip + 1)
    /\ UNCHANGED <<cacheVars, relayVars, applying, lockVars, task, ret, inFlight>>

Next ==
    \/ \E ts \in Inputs : Submit(ts)
    \/ Return
    \/ \E id \in DOMAIN transactionSets \cup {NoSet} : ApplyBlock(id)

Spec == Init /\ [][Next]_vars

---------------------------------------------------------------------------
(* Concurrent tasks: submitTransactionSet step by step, the ledger applying
   blocks, and a status query reading the pool. *)

\* The concurrent tasks submit the parent A, its child C and the unrelated N.
ConcTxns == {"A", "C", "N"}

ConcInputs == {s \in Inputs : Len(s) <= ConcMaxSetLen /\ Range(s) \subseteq ConcTxns}

At(p, pc) == task[p].pc = pc
Goto(p, pc) == task' = [task EXCEPT ![p].pc = pc]

\* A try section that runs fn without taking the ledger's lock.
LockedTryWithoutSection(p) ==
    /\ At(p, "idle")
    /\ Goto(p, "lockOuter")
    /\ UNCHANGED <<cacheVars, relayVars, poolVars, ledgerVars, lockVars, ret, inFlight>>

\* cs.LockedTryTransactionSet(fn): the ledger's lock is taken, then fn runs.
LockedTryTransactionSet(p) ==
    /\ At(p, "idle")
    /\ csMu = {}
    /\ csMu' = {p}
    /\ Goto(p, "lockOuter")
    /\ UNCHANGED <<cacheVars, relayVars, poolVars, ledgerVars, outerMu, innerMu, ret, inFlight>>

\* tp.outerMu.Lock()
LockOuter(p) ==
    /\ At(p, "lockOuter")
    /\ outerMu = {}
    /\ outerMu' = {p}
    /\ Goto(p, "lockInner")
    /\ UNCHANGED <<cacheVars, relayVars, poolVars, ledgerVars, csMu, innerMu, ret, inFlight>>

\* A submission that goes on to acceptTransactionSet without tp.innerMu.
LockInnerSkipped(p) ==
    /\ At(p, "lockInner")
    /\ Goto(p, "accept")
    /\ UNCHANGED <<cacheVars, relayVars, poolVars, ledgerVars, lockVars, ret, inFlight>>

\* tp.innerMu.Lock()
LockInner(p) ==
    /\ At(p, "lockInner")
    /\ innerMu = {}
    /\ innerMu' = {p}
    /\ Goto(p, "accept")
    /\ UNCHANGED <<cacheVars, relayVars, poolVars, ledgerVars, csMu, outerMu, ret, inFlight>>

\* Variant: txnFn is called once the try section of the ledger has ended.
ValidateOutsideSection(p, ts) ==
    /\ At(p, "accept")
    /\ \E plan \in acceptTransactionSet(ts) :
          task' = [task EXCEPT ![p] =
                      IF plan.err = ""
                      THEN [Resting EXCEPT !.pc = "install", !.ts = ts, !.plan = plan]
                      ELSE [Resting EXCEPT !.pc = "unlockInner", !.ok = FALSE]]
    /\ csMu' = csMu \ {p}
    /\ UNCHANGED <<cacheVars, relayVars, poolVars, ledgerVars, outerMu, innerMu, ret, inFlight>>

\* acceptTransactionSet(ts, txnFn) up to the return of txnFn: the checks, the
\* conflict handler and the validation.  An error returns at once.
Validate(p, ts) ==
    /\ At(p, "accept")
    /\ \E plan \in acceptTransactionSet(ts) :
          task' = [task EXCEPT ![p] =
                      IF plan.err = ""
                      THEN [Resting EXCEPT !.pc = "install", !.ts = ts, !.plan = plan]
                      ELSE [Resting EXCEPT !.pc = "unlockInner", !.ok = FALSE]]
    /\ UNCHANGED <<cacheVars, relayVars, poolVars, ledgerVars, lockVars, ret, inFlight>>

\* handleConflicts, cache.go 381-387: the conflicts leave the pool.
EvictConflicts(plan) ==
    /\ transactionSets' = MapDel(transactionSets, plan.supersetMap)
    /\ transactionSetDiffs' = MapDel(transactionSetDiffs, plan.supersetMap)
    /\ transactionListSize' = transactionListSize - SumEncodedLen(plan.supersetMap)
    /\ UNCHANGED <<knownObjects, transactionHeights>>

\* Variant: once the pool is written the locks are released without a call
\* to updateSubscribersTransactions.
InstallWithoutNotify(p) ==
    /\ At(p, "install")
    /\ IF task[p].plan.path = "merge" /\ task[p].plan.supersetMap # {}
       THEN /\ EvictConflicts(task[p].plan)
            /\ task' = [task EXCEPT ![p].pc = "add", ![p].plan.supersetMap = {}]
       ELSE /\ Commit(task[p].plan)
            /\ task' = [task EXCEPT ![p].pc = "unlockInner", ![p].ts = <<>>,
                                    ![p].plan = Idle.out]
    /\ UNCHANGED <<cacheVars, relayVars, ledgerVars, lockVars, ret, inFlight>>

\* The rest of acceptTransactionSet: the pool is written.  A merge first
\* removes the conflicts and then adds the superset; a reader let in between
\* the two would see the conflicts gone and the superset missing.
Install(p) ==
    /\ At(p, "install")
    /\ IF task[p].plan.path = "merge" /\ task[p].plan.supersetMap # {}
       THEN /\ EvictConflicts(task[p].plan)
            /\ task' = [task EXCEPT ![p].pc = "add", ![p].plan.supersetMap = {}]
       ELSE /\ Commit(task[p].plan)
            /\ task' = [task EXCEPT ![p].pc = "notify", ![p].ts = <<>>,
                                    ![p].plan = Idle.out]
    /\ UNCHANGED <<cacheVars, relayVars, ledgerVars, lockVars, ret, inFlight>>

\* handleConflicts, cache.go 389-410: the superset is added to the pool.
AddSuperset(p) ==
    /\ At(p, "add")
    /\ Commit(task[p].plan)
    /\ task' = [task EXCEPT ![p].pc = "notify", ![p].ts = <<>>, ![p].plan = Idle.out]
    /\ UNCHANGED <<cacheVars, relayVars, ledgerVars, lockVars, ret, inFlight>>

\* tp.updateSubscribersTransactions(), called once acceptTransactionSet has
\* returned without error; the pool is read, not written.
Notify(p) ==
    /\ At(p, "notify")
    /\ task' = [task EXCEPT ![p].pc = "unlockInner", ![p].notified = TRUE]
    /\ UNCHANGED <<cacheVars, relayVars, poolVars, ledgerVars, lockVars, ret, inFlight>>

\* The deferred tp.innerMu.Unlock()
UnlockInner(p) ==
    /\ At(p, "unlockInner")
    /\ innerMu' = innerMu \ {p}
    /\ Goto(p, "unlockOuter")
    /\ UNCHANGED <<cacheVars, relayVars, poolVars, ledgerVars, csMu, outerMu, ret, inFlight>>

\* Variant: the deferred unlock of the outer lock runs on success only.
UnlockOuterOnSuccess(p) ==
    /\ At(p, "unlockOuter")
    /\ outerMu' = IF task[p].ok THEN outerMu \ {p} ELSE outerMu
    /\ Goto(p, "leave")
    /\ UNCHANGED <<cacheVars, relayVars, poolVars, ledgerVars, csMu, innerMu, ret, inFlight>>

\* The deferred tp.outerMu.Unlock()
UnlockOuter(p) ==
    /\ At(p, "unlockOuter")
    /\ outerMu' = outerMu \ {p}
    /\ Goto(p, "leave")
    /\ UNCHANGED <<cacheVars, relayVars, poolVars, ledgerVars, csMu, innerMu, ret, inFlight>>

\* LockedTryTransactionSet returns: the ledger's lock is released.
Leave(p) ==
    /\ At(p, "leave")
    /\ csMu' = csMu \ {p}
    /\ Goto(p, "submitted")
    /\ UNCHANGED <<cacheVars, relayVars, poolVars, ledgerVars, outerMu, innerMu, ret, inFlight>>

\* AcceptTransactionSet returns the error of submitTransactionSet.
ReturnErr(p) ==
    /\ At(p, "submitted")
    /\ ~task[p].ok
    /\ task' = [task EXCEPT ![p] = Resting]
    /\ UNCHANGED <<cacheVars, relayVars, poolVars, ledgerVars, lockVars, ret, inFlight>>

\* Variant: the set is handed to the gateway whatever submitTransactionSet
\* returned.
BroadcastAnyway(p) ==
    /\ At(p, "submitted")
    /\ inFlight < MaxInFlight
    /\ inFlight' = inFlight + 1
    /\ task' = [task EXCEPT ![p].pc = "return", ![p].sent = @ + 1]
    /\ UNCHANGED <<cacheVars, relayVars, poolVars, ledgerVars, lockVars, ret>>

\* go tp.gateway.Broadcast(...): the call is started and not waited for.
Broadcast(p) ==
    /\ At(p, "submitted")
    /\ task[p].ok
    /\ inFlight < MaxInFlight
    /\ inFlight' = inFlight + 1
    /\ task' = [task EXCEPT ![p].pc = "return", ![p].sent = @ + 1]
    /\ UNCHANGED <<cacheVars, relayVars, poolVars, ledgerVars, lockVars, ret>>

\* AcceptTransactionSet returns nil.
ReturnNil(p) ==
    /\ At(p, "return")
    /\ task' = [task EXCEPT ![p] = Resting]
    /\ UNCHANGED <<cacheVars, relayVars, poolVars, ledgerVars, lockVars, ret, inFlight>>

\* The gateway finishes a Broadcast call.
BroadcastDone ==
    /\ inFlight > 0
    /\ inFlight' = inFlight - 1
    /\ UNCHANGED <<cacheVars, relayVars, poolVars, ledgerVars, lockVars, task, ret>>

\* The ledger takes its lock and moves the tip.
BlockApply(id) ==
    /\ csMu = {}
    /\ csMu' = {Ledger}
    /\ LedgerApply(id)
    /\ applying' = id
    /\ UNCHANGED <<cacheVars, relayVars, poolVars, blockHeight, outerMu, innerMu, task, ret, inFlight>>

\* Still under the ledger's lock, the pool is updated under both of its locks,
\* and the ledger's lock is released.
BlockProcess ==
    /\ csMu = {Ledger}
    /\ outerMu = {} /\ innerMu = {}
    /\ PoolProcessChange(applying, tip)
    /\ applying' = NoSet
    /\ csMu' = {}
    /\ UNCHANGED <<cacheVars, relayVars, confirmed, tip, outerMu, innerMu, task, ret, inFlight>>

\* Variant: a status query reads the pool without waiting for the inner lock.
ReaderLockUnguarded ==
    /\ Reader \notin innerMu
    /\ innerMu' = innerMu \cup {Reader}
    /\ UNCHANGED <<cacheVars, relayVars, poolVars, ledgerVars, csMu, outerMu, task, ret, inFlight>>

\* A status query takes the inner lock to read the pool, and releases it.
ReaderLock ==
    /\ innerMu = {}
    /\ innerMu' = {Reader}
    /\ UNCHANGED <<cacheVars, relayVars, poolVars, ledgerVars, csMu, outerMu, task, ret, inFlight>>

ReaderUnlock ==
    /\ innerMu = {Reader}
    /\ innerMu' = {}
    /\ UNCHANGED <<cacheVars, relayVars, poolVars, ledgerVars, csMu, outerMu, task, ret, inFlight>>

ConcNext ==
    \/ \E p \in Tasks : LockedTryTransactionSet(p)
    \/ \E p \in Tasks : LockOuter(p)
    \/ \E p \in Tasks : LockInner(p)
    \/ \E p \in Tasks : \E ts \in ConcInputs : Validate(p, ts)
    \/ \E p \in Tasks : Install(p)
    \/ \E p \in Tasks : AddSuperset(p)
    \/ \E p \in Tasks : Notify(p)
    \/ \E p \in Tasks : UnlockInner(p)
    \/ \E p \in Tasks : UnlockOuter(p)
    \/ \E p \in Tasks : Leave(p)
    \/ \E p \in Tasks : ReturnErr(p)
    \/ \E p \in Tasks : Broadcast(p)
    \/ \E p \in Tasks : ReturnNil(p)
    \/ BroadcastDone
    \/ \E id \in DOMAIN transactionSets \cup {NoSet} : BlockApply(id)
    \/ BlockProcess
    \/ ReaderLock
    \/ ReaderUnlock

ConcSpec == Init /\ [][ConcNext]_vars

\* Scheduling.  A task that can take a step of its own code takes it; txnFn
\* returns; a lock that keeps becoming free is obtained by each of its
\* waiters, the ledger among them; the holder of a lock releases it; the
\* go statement that starts Broadcast does not block, and the gateway ends
\* the calls it runs.  Nobody is made to call: entering the try section,
\* applying a block and a status query are left to the callers.
TaskFairness(p) ==
    /\ SF_vars(LockOuter(p))
    /\ SF_vars(LockInner(p))
    /\ WF_vars(\E ts \in ConcInputs : Validate(p, ts))
    /\ WF_vars(Install(p))
    /\ WF_vars(AddSuperset(p))
    /\ WF_vars(Notify(p))
    /\ WF_vars(UnlockInner(p))
    /\ WF_vars(UnlockOuter(p))
    /\ WF_vars(Leave(p))
    /\ WF_vars(ReturnErr(p))
    /\ SF_vars(Broadcast(p))
    /\ WF_vars(ReturnNil(p))

Fairness ==
    /\ \A p \in Tasks : TaskFairness(p)
    /\ WF_vars(BroadcastDone)
    /\ SF_vars(BlockProcess)
    /\ WF_vars(ReaderUnlock)

LiveSpec == ConcSpec /\ Fairness

---------------------------------------------------------------------------
(* The two entry points: relayTransactionSet serving a peer connection and
   AcceptTransactionSet called by the local API, with the thread group of the
   service. *)

\* The gateway hands the peer connections to the first task; the other tasks
\* are callers of the local API.  The peer and the callers offer a parent, its
\* child, or nothing.
RelayTasks == {1}
LocalTasks == Tasks \ RelayTasks
RelayInputs == {s \in ConcInputs : Range(s) \subseteq {"A", "C"}}

AtRelay(p, pc) == relay[p].pc = pc
Returned(p, err) == relay' = [relay EXCEPT ![p].pc = "returned", ![p].err = err]

\* tp.tg.Stop(): from now on tg.Add fails and StopChan is closed.
Stop ==
    /\ ~stopped
    /\ stopped' = TRUE
    /\ UNCHANGED <<admissionVars, cacheVars, relay>>

\* relayTransactionSet(conn) is called for a new connection: tg.Add().
RelayCall(p) ==
    /\ AtRelay(p, "none")
    /\ relay' = [relay EXCEPT ![p] =
                    IF stopped
                    THEN [NoConn EXCEPT !.pc = "returned", !.conn = "open",
                                        !.err = "stopped"]
                    ELSE [NoConn EXCEPT !.pc = "deadline", !.conn = "open"]]
    /\ UNCHANGED <<admissionVars, cacheVars, stopped>>

\* conn.SetDeadline(...): its error is returned; without one the watcher is
\* started, go func() { select ... ; conn.Close() }(), and the read begins.
SetDeadline(p) ==
    /\ AtRelay(p, "deadline")
    /\ \/ relay' = [relay EXCEPT ![p].pc = "prefix", ![p].watcher = "waiting"]
       \/ Returned(p, "deadline")
    /\ UNCHANGED <<admissionVars, cacheVars, stopped>>

\* Variant: the watcher waits for StopChan only.
WatcherWaitsForStop(p) ==
    /\ relay[p].watcher = "waiting"
    /\ stopped
    /\ relay' = [relay EXCEPT ![p].watcher = "done", ![p].conn = "closed"]
    /\ UNCHANGED <<admissionVars, cacheVars, stopped>>

\* The watcher: once StopChan or finishedChan is closed, the connection is
\* closed and the watcher ends.  finishedChan is closed when the handler
\* returns.
Watcher(p) ==
    /\ relay[p].watcher = "waiting"
    /\ stopped \/ AtRelay(p, "returned")
    /\ relay' = [relay EXCEPT ![p].watcher = "done", ![p].conn = "closed"]
    /\ UNCHANGED <<admissionVars, cacheVars, stopped>>

\* Variant: the outer lock of the pool is taken before the set is read.
ReadPrefixUnderLock(p, ts) ==
    /\ AtRelay(p, "prefix")
    /\ relay[p].conn = "closed" => ts = <<>>
    /\ outerMu = {}
    /\ outerMu' = {p}
    /\ relay' = [relay EXCEPT ![p].ts = ts,
                              ![p].pc = IF Len(ts) = 0 THEN "accept" ELSE "decode"]
    /\ UNCHANGED <<poolVars, ledgerVars, csMu, innerMu, task, inFlight, ret,
                   cacheVars, stopped>>

\* d.ReadUint64() and d.ReadPrefix(): the peer announces the transactions of
\* ts.  A read that fails yields the prefix 0, and so does a peer that
\* announces none.
ReadPrefix(p, ts) ==
    /\ AtRelay(p, "prefix")
    /\ relay[p].conn = "closed" => ts = <<>>
    /\ relay' = [relay EXCEPT ![p].ts = ts,
                              ![p].pc = IF Len(ts) = 0 THEN "accept" ELSE "decode"]
    /\ UNCHANGED <<admissionVars, cacheVars, stopped>>

\* ts[i].DecodeFrom(d) without error.
Decode(p) ==
    /\ AtRelay(p, "decode")
    /\ relay[p].conn = "open"
    /\ relay' = [relay EXCEPT ![p].n = @ + 1,
                              ![p].pc = IF relay[p].n + 1 = Len(relay[p].ts)
                                        THEN "accept" ELSE "decode"]
    /\ UNCHANGED <<admissionVars, cacheVars, stopped>>

\* ts[i].DecodeFrom(d) with d.Err() set: malformed bytes, the byte limit,
\* the deadline, or a connection closed by the watcher.  The error is returned.
DecodeFail(p) ==
    /\ AtRelay(p, "decode")
    /\ Returned(p, "decode")
    /\ UNCHANGED <<admissionVars, cacheVars, stopped>>

\* The local API calls AcceptTransactionSet(ts).
LocalCall(p, ts) ==
    /\ AtRelay(p, "none")
    /\ relay' = [relay EXCEPT ![p] = [NoConn EXCEPT !.pc = "accept", !.ts = ts]]
    /\ UNCHANGED <<admissionVars, cacheVars, stopped>>

\* Variant: AcceptTransactionSet goes on whatever tg.Add returned.
AcceptAddIgnoresStop(p) ==
    /\ AtRelay(p, "accept")
    /\ relay' = [relay EXCEPT ![p].pc = "submit"]
    /\ UNCHANGED <<admissionVars, cacheVars, stopped>>

\* AcceptTransactionSet(ts): tg.Add(), whose error is returned.
AcceptAdd(p) ==
    /\ AtRelay(p, "accept")
    /\ IF stopped
       THEN Returned(p, "stopped")
       ELSE relay' = [relay EXCEPT ![p].pc = "submit"]
    /\ UNCHANGED <<admissionVars, cacheVars, stopped>>

\* tp.submitTransactionSet(ts) is called and enters the try section of the
\* ledger.
SubmitCall(p) ==
    /\ AtRelay(p, "submit")
    /\ At(p, "idle")
    /\ csMu = {}
    /\ csMu' = {p}
    /\ Goto(p, "lockOuter")
    /\ relay' = [relay EXCEPT ![p].pc = "submitting", ![p].calls = @ + 1]
    /\ UNCHANGED <<poolVars, ledgerVars, outerMu, innerMu, inFlight, ret,
                   cacheVars, stopped>>

\* Variant: a set that was refused is submitted again.
SubmitErrRetried(p) ==
    /\ AtRelay(p, "submitting")
    /\ At(p, "submitted")
    /\ ~task[p].ok
    /\ task' = [task EXCEPT ![p] = Resting]
    /\ relay' = [relay EXCEPT ![p].pc = IF relay[p].calls < 2 THEN "submit" ELSE "returned",
                              ![p].err = IF relay[p].calls < 2 THEN "" ELSE "submit"]
    /\ UNCHANGED <<poolVars, ledgerVars, lockVars, inFlight, ret, cacheVars, stopped>>

\* The error of submitTransactionSet is returned by AcceptTransactionSet and
\* by relayTransactionSet.
SubmitErr(p) ==
    /\ AtRelay(p, "submitting")
    /\ At(p, "submitted")
    /\ ~task[p].ok
    /\ task' = [task EXCEPT ![p] = Resting]
    /\ Returned(p, "submit")
    /\ UNCHANGED <<poolVars, ledgerVars, lockVars, inFlight, ret, cacheVars, stopped>>

\* AcceptTransactionSet returns nil once Broadcast was started, and so does
\* relayTransactionSet.
SubmitNil(p) ==
    /\ AtRelay(p, "submitting")
    /\ At(p, "return")
    /\ task' = [task EXCEPT ![p] = Resting]
    /\ Returned(p, "")
    /\ UNCHANGED <<poolVars, ledgerVars, lockVars, inFlight, ret, cacheVars, stopped>>

\* The call is over and its watcher, if any, has ended: the task is free for
\* the next connection or call.
Hangup(p) ==
    /\ AtRelay(p, "returned")
    /\ relay[p].watcher # "waiting"
    /\ relay' = [relay EXCEPT ![p] = NoConn]
    /\ UNCHANGED <<admissionVars, cacheVars, stopped>>

RelayNext ==
    \/ Stop
    \/ \E p \in RelayTasks : RelayCall(p)
    \/ \E p \in RelayTasks : SetDeadline(p)
    \/ \E p \in RelayTasks : Watcher(p)
    \/ \E p \in RelayTasks : \E ts \in RelayInputs : ReadPrefix(p, ts)
    \/ \E p \in RelayTasks : Decode(p)
    \/ \E p \in RelayTasks : DecodeFail(p)
    \/ \E p \in LocalTasks : \E ts \in RelayInputs : LocalCall(p, ts)
    \/ \E p \in Tasks : AcceptAdd(p)
    \/ \E p \in Tasks : SubmitCall(p)
    \/ \E p \in Tasks : LockOuter(p)
    \/ \E p \in Tasks : LockInner(p)
    \/ \E p \in Tasks : Validate(p, relay[p].ts)
    \/ \E p \in Tasks : Install(p)
    \/ \E p \in Tasks : AddSuperset(p)
    \/ \E p \in Tasks : Notify(p)
    \/ \E p \in Tasks : UnlockInner(p)
    \/ \E p \in Tasks : UnlockOuter(p)
    \/ \E p \in Tasks : Leave(p)
    \/ \E p \in Tasks : SubmitErr(p)
    \/ \E p \in Tasks : Broadcast(p)
    \/ \E p \in Tasks : SubmitNil(p)
    \/ \E p \in Tasks : Hangup(p)
    \/ BroadcastDone
    \/ BlockApply(NoSet)
    \/ BlockProcess

RelaySpec == Init /\ [][RelayNext]_vars

\* Scheduling of the entry points.  The deadline set on the connection ends
\* every read, with bytes or with an error, so the reading steps are taken;
\* tg.Add, the watcher's select and the steps of a submission do not wait for
\* anybody but the holders of the locks, who release them.  Calls, connections
\* and tg.Stop are left to the callers.
HandlerStep(p) ==
    \/ SetDeadline(p)
    \/ \E ts \in RelayInputs : ReadPrefix(p, ts)
    \/ Decode(p)
    \/ DecodeFail(p)
    \/ AcceptAdd(p)
    \/ Validate(p, relay[p].ts)
    \/ Install(p)
    \/ AddSuperset(p)
    \/ Notify(p)
    \/ UnlockInner(p)
    \/ UnlockOuter(p)
    \/ Leave(p)
    \/ SubmitErr(p)
    \/ SubmitNil(p)

\* The steps a task may have to wait for: the try section of the ledger, the
\* locks of the pool, and a free place for the Broadcast it starts.
HandlerAcquire(p) ==
    \/ SubmitCall(p)
    \/ LockOuter(p)
    \/ LockInner(p)
    \/ Broadcast(p)

RelayFairness ==
    /\ \A p \in Tasks : WF_vars(HandlerStep(p)) /\ SF_vars(HandlerAcquire(p))
    /\ \A p \in RelayTasks : WF_vars(Watcher(p))
    /\ WF_vars(BroadcastDone)
    /\ SF_vars(BlockProcess)

RelayLiveSpec == RelaySpec /\ RelayFairness

---------------------------------------------------------------------------
(* A ring cache under any sequence of Push and Lookup calls. *)

CacheNext ==
    \/ \E id \in CacheIDs : \E sco \in CacheValues : Push(id, sco)
    \/ \E id \in CacheIDs : LookupCall(id)

CacheSpec == Init /\ [][CacheNext]_vars

---------------------------------------------------------------------------
(* Properties of the pool under calls made one at a time. *)

\* The latest call was accepted / accepted by the conflict handler.
RetAccepted == ret # Idle /\ ret.out.err = ""
RetMerged == RetAccepted /\ ret.out.path = "merge"

\* The step is a call that was accepted by the conflict handler.
MergeStep == ret' # ret /\ ret' # Idle /\ ret'.out.err = "" /\ ret'.out.path = "merge"

\* C1: the byte count of the pool is the sum of the encoded sizes of exactly
\* the sets that are registered, in every reachable state.
C1_SizeInvariant == transactionListSize = SumEncodedLen(DOMAIN transactionSets)

\* A merge has replaced a registered set while another set stays registered.
C1_Witness ==
    /\ RetMerged
    /\ ret.out.supersetMap # {}
    /\ Cardinality(DOMAIN transactionSets) >= 2
    /\ transactionListSize > EncodedLen(ret.out.superset)

\* C2: a call that returns an error leaves the sets, the diffs, the object
\* index, the heights and the byte count as they were; a call accepted by the
\* conflict handler has removed every conflicting set and installed the superset.
C2_ErrorLeavesPool ==
    [][/\ (ret'.out.err # "" => UNCHANGED poolVars)
       /\ (MergeStep =>
              /\ ret'.out.supersetMap \cap DOMAIN transactionSets' = {}
              /\ SetID(ret'.out.superset) \in DOMAIN transactionSets')]_vars

\* The conflict handler refused a superset as invalid, on its second entry,
\* and the conflicting sets are still registered.
C2_Witness ==
    /\ ret.out.err = ErrConflictInvalid
    /\ ret.out.depth = 2
    /\ ret.out.supersetMap # {}
    /\ ret.out.supersetMap \subseteq DOMAIN transactionSets
    /\ \A id \in ret.out.supersetMap : id \in DOMAIN transactionSetDiffs

\* The step repeats the candidate that was accepted just before.
RepeatStep == RetAccepted /\ ret' # Idle /\ ret' # ret

\* C3 as claimed: a repeat of an accepted candidate returns the duplicate
\* error and leaves the pool unchanged.
C3_RepeatIsDuplicate ==
    [][RepeatStep =>
          /\ ret'.out.err = ErrDuplicateTransactionSet
          /\ UNCHANGED poolVars]_vars

\* C3 amended: a repeat of an accepted candidate leaves the pool unchanged and
\* returns the duplicate error, or the fee error when the pool has reached the
\* size at which fees are asked and the candidate's fees are below the fees
\* required for it; a candidate that was admitted with no conflicts always gets
\* the duplicate error.
C3_RepeatRefused ==
    [][RepeatStep =>
          /\ UNCHANGED poolVars
          /\ \/ ret'.out.err = ErrDuplicateTransactionSet
             \/ /\ ret'.out.err = errLowMinerFees
                /\ ret.out.path = "merge"
                /\ transactionListSize >= TransactionPoolSizeForFee
                /\ requiredFeesToExtendTpool * EncodedLen(Unconfirmed(ret.ts))
                       > setFees(Unconfirmed(ret.ts))]_vars

\* A candidate merged into a superset was repeated and refused as a duplicate
\* by the conflict handler.
C3_Witness ==
    /\ ret.again
    /\ ret.out.err = ErrDuplicateTransactionSet
    /\ ret.out.path = "merge"
    /\ transactionSets # EmptyMap

\* A task has validated and not yet written the pool.
Installing(p) == task[p].pc \in {"install", "add"}

\* The diffs this step stores.
StoredNow ==
    {id \in DOMAIN transactionSetDiffs' :
        id \notin DOMAIN transactionSetDiffs
        \/ transactionSetDiffs'[id] # transactionSetDiffs[id]}

\* C4: from the validation of a submission to the end of its pool writes the
\* tip does not move and no one else writes the pool, and every diff is
\* stored with the tip it was computed against still current.
C4_NoChangeBetweenValidateAndInstall ==
    [][/\ \A p \in Tasks : Installing(p) =>
              /\ tip' = tip
              /\ confirmed' = confirmed
              /\ poolVars' # poolVars => task'[p].pc \in {"add", "notify"}
       /\ \A id \in StoredNow : transactionSetDiffs'[id].tip = tip'
      ]_vars

\* A submission validated after a block stored its diff at the new tip and
\* has yet to release its locks.
C4_Witness ==
    \E p \in Tasks :
        /\ task[p].pc = "unlockInner"
        /\ tip = 1
        /\ \E id \in DOMAIN transactionSetDiffs : transactionSetDiffs[id].tip = 1

Holds(p, mu) == p \in mu
Takes(p, mu) == p \in mu' /\ p \notin mu

\* C5: a submission takes the outer lock only inside the ledger's try section
\* and without the inner lock, takes the inner lock only under the outer
\* lock, and validates with all three held.
C5_LockOrder ==
    [][\A p \in Tasks :
          /\ Takes(p, outerMu) => Holds(p, csMu) /\ ~Holds(p, innerMu)
          /\ Takes(p, innerMu) => Holds(p, csMu) /\ Holds(p, outerMu)
          /\ (task[p].pc = "accept" /\ task'[p].pc # "accept") =>
                 Holds(p, csMu) /\ Holds(p, outerMu) /\ Holds(p, innerMu)
      ]_vars

\* A submission has validated under all three locks while the other task
\* has not entered the try section.
C5_Witness ==
    \E p \in Tasks :
        /\ task[p].pc = "install"
        /\ csMu = {p} /\ outerMu = {p} /\ innerMu = {p}
        /\ \A q \in Tasks \ {p} : task[q].pc = "idle"

\* C6: every entry of the object index names a registered set that touches
\* the object.
C6_IndexPointsAtLiveSets ==
    \A o \in DOMAIN knownObjects :
        /\ knownObjects[o] \in DOMAIN transactionSets
        /\ o \in relatedObjectIDs(transactionSets[knownObjects[o]])

\* A merge has evicted a set whose objects are now indexed under the superset.
C6_Witness ==
    /\ RetMerged
    /\ ret.out.supersetMap # {}
    /\ \E o \in DOMAIN knownObjects :
          /\ knownObjects[o] = SetID(ret.out.superset)
          /\ o \notin relatedObjectIDs(ret.out.dedup)

C8_DiffOfExactlyTheSet ==
    /\ DOMAIN transactionSetDiffs = DOMAIN transactionSets
    /\ \A id \in DOMAIN transactionSets :
          transactionSetDiffs[id].txns = transactionSets[id]

\* A superset and an untouched set are registered, each with its diff.
C8_Witness ==
    /\ RetMerged
    /\ ret.out.supersetMap # {}
    /\ Len(ret.out.superset) > Len(ret.out.dedup)
    /\ Cardinality(DOMAIN transactionSetDiffs) >= 2
    /\ transactionSetDiffs[SetID(ret.out.superset)].txns = ret.out.superset

\* The transactions of the sets a merge supersedes, read before the merge.
SupersededTxns(out) == UNION {Range(SetTxns(c)) : c \in out.supersetMap}

IsConcatOf(s, out) == \E order \in Orders(out.supersetMap) : s = Concat(order, 1)

\* C9: in a superset every transaction of a superseded set precedes every
\* transaction of the candidate remainder, the superseded sets are kept whole
\* and in order, and the remainder keeps the order of the candidate.
C9_PooledBeforeCandidate ==
    [][MergeStep =>
          LET out == ret'.out
              n == Len(out.superset) - Len(out.dedup)
          IN  /\ n >= 0
              /\ IsConcatOf(SubSeq(out.superset, 1, n), out)
              /\ SubSeq(out.superset, n + 1, Len(out.superset)) = out.dedup
              /\ out.dedup = SelectSeq(ret'.ts, LAMBDA t : t \in Range(out.dedup))
              /\ \A i, j \in DOMAIN out.superset :
                    (out.superset[i] \in SupersededTxns(out)
                        /\ out.superset[j] \in Range(out.dedup)) => i < j]_vars

\* With [A] pooled, the candidate [B, C] was admitted as the superset [A, B, C].
C9_Witness ==
    /\ RetMerged
    /\ ret.ts = <<"B", "C">>
    /\ ret.out.supersetMap = {SetID(<<"A">>)}
    /\ ret.out.superset = <<"A", "B", "C">>
    /\ SetID(<<"A", "B", "C">>) \in DOMAIN transactionSets

\* x and y are pooled as two sets of their own, and z touches no pooled object.
PooledApart(x, y, z) ==
    /\ x # y /\ x # z /\ y # z
    /\ SetID(<<x>>) \in DOMAIN transactionSets
    /\ SetID(<<y>>) \in DOMAIN transactionSets
    /\ relatedObjectIDs(<<x>>) # {} /\ relatedObjectIDs(<<y>>) # {}
    /\ relatedObjectIDs(<<z>>) \cap DOMAIN knownObjects = {}
    /\ \A id \in DOMAIN transactionSets : z \notin Range(transactionSets[id])

\* The step is the accepted call of a candidate [x, y, z] made while [x] and
\* [y] are pooled apart and z touches no pooled object.
ThreeStep ==
    /\ ret' # ret /\ ret' # Idle /\ ret'.out.err = ""
    /\ Len(ret'.ts) = 3
    /\ PooledApart(ret'.ts[1], ret'.ts[2], ret'.ts[3])

\* C10 as claimed: with [x] and [y] pooled, the candidate [x, y, z] is merged
\* with both in one pass of the conflict handler, nothing is pruned, and the
\* two pooled sets are replaced by one superset.
C10_OnePassMerge ==
    [][ThreeStep =>
          /\ ret'.out.depth = 1
          /\ ret'.out.dedup = ret'.ts
          /\ Range(ret'.ts) \subseteq Range(ret'.out.superset)
          /\ SetID(<<ret'.ts[1]>>) \notin DOMAIN transactionSets'
          /\ SetID(<<ret'.ts[2]>>) \notin DOMAIN transactionSets']_vars

\* C10 amended: with [x] and [y] pooled, the candidate [x, y, z] has both
\* conflicts detected, x and y are pruned as already pooled, the conflict handler
\* is entered a second time with [z], and [z] is installed as a set of its own
\* while [x] and [y] stay registered unchanged.
C10_PrunedToRemainder ==
    [][ThreeStep =>
          /\ ret'.out.path = "merge"
          /\ ret'.out.depth = 2
          /\ ret'.out.dedup = <<ret'.ts[3]>>
          /\ ret'.out.superset = <<ret'.ts[3]>>
          /\ ret'.out.supersetMap = {}
          /\ DOMAIN transactionSets' =
                 DOMAIN transactionSets \cup {SetID(<<ret'.ts[3]>>)}
          /\ \A id \in DOMAIN transactionSets :
                transactionSets'[id] = transactionSets[id]]_vars

\* [A] and [B] were pooled apart and the candidate [A, B, N] was accepted.
C10_Witness ==
    /\ RetAccepted
    /\ ret.ts = <<"A", "B", "N">>
    /\ ret.out.depth = 2
    /\ {SetID(<<"A">>), SetID(<<"B">>), SetID(<<"N">>)} \subseteq DOMAIN transactionSets

\* No call is in progress.  Every pool and ledger the model reaches is reached
\* between calls, and the outcome of a call depends on these alone.
BetweenCalls == ret = Idle

\* The pool has reached the occupancy from which fees are asked.
FeesAsked == transactionListSize >= TransactionPoolSizeForFee

\* The fee the pool asks of a set: the fee per byte times the encoded size.
FeeDue(ts) == requiredFeesToExtendTpool * EncodedLen(ts)

C12_FreeBelowThreshold ==
    /\ ~FeesAsked =>
           /\ requiredFeesToExtendTpool = 0
           /\ BetweenCalls =>
                  \A ts \in Candidates :
                      \A out \in acceptTransactionSet(ts) : out.err # errLowMinerFees
    /\ FeesAsked =>
           requiredFeesToExtendTpool =
               requiredFeesToExtendTpoolAtSize(transactionListSize)

\* A candidate was refused for low fees by a pool filled exactly to the
\* threshold.
C12_Witness ==
    /\ transactionListSize = TransactionPoolSizeForFee
    /\ ret # Idle
    /\ ret.out.err = errLowMinerFees
    /\ requiredFeesToExtendTpool > 0

\* The transactions of ts that are among keep, in the order of ts.
Restrict(ts, keep) == SelectSeq(ts, LAMBDA t : t \in keep)

\* The transactions held by the registered sets.
Pooled == UNION {Range(transactionSets[id]) : id \in DOMAIN transactionSets}

SubmitStep == ret' # ret /\ ret' # Idle

\* C15: a call keeps every recorded height as it is, and records the
\* current height for the transactions it installs for the first time.
C15_FirstHeightKept ==
    [][SubmitStep =>
          /\ \A t \in DOMAIN transactionHeights :
                 /\ t \in DOMAIN transactionHeights'
                 /\ transactionHeights'[t] = transactionHeights[t]
          /\ \A t \in DOMAIN transactionHeights' \ DOMAIN transactionHeights :
                 /\ transactionHeights'[t] = blockHeight
                 /\ ret'.out.err = "" /\ t \in Range(ret'.out.superset)
      ]_vars

\* A superset installed after a block holds a transaction first seen before
\* the block, whose set it replaced, and one first seen now.
C15_Witness ==
    /\ RetMerged
    /\ ret.out.supersetMap # {}
    /\ blockHeight = 1
    /\ \E t, u \in Range(ret.out.superset) :
           /\ t \in DOMAIN transactionHeights /\ transactionHeights[t] = 0
           /\ u \in DOMAIN transactionHeights /\ transactionHeights[u] = 1

\* C16: an empty candidate is refused as empty whatever the pool and the
\* ledger hold, and the call leaves both as they are.
C16_EmptySetRefused ==
    [][/\ acceptTransactionSet(<<>>) = {Refused(errEmptySet, "direct", 0, {})}
       /\ (SubmitStep /\ ret'.out.err = errEmptySet) =>
              UNCHANGED <<poolVars, ledgerVars>>
      ]_vars

\* An empty candidate was refused by a pool that holds sets, after a block.
C16_Witness ==
    /\ ret # Idle
    /\ ret.out.err = errEmptySet
    /\ transactionSets # EmptyMap
    /\ confirmed # {}

\* C19: a call enters handleConflicts at most twice: once for the candidate
\* and, if transactions were pruned, once more for what is left of it.
C19_AtMostOneRecursion ==
    [][SubmitStep =>
          /\ ret'.out.depth \in 0..2
          /\ ret'.out.path = "direct" => ret'.out.depth = 0
          /\ ret'.out.path = "merge" => ret'.out.depth >= 1
      ]_vars

\* A candidate was pruned and what was left of it was merged with a pooled
\* set in the second pass.
C19_Witness ==
    /\ RetMerged
    /\ ret.out.depth = 2
    /\ ret.out.supersetMap # {}
    /\ Len(ret.out.dedup) < Len(ret.ts)

\* C20: an accepted merge removes every conflicting set with its diff,
\* registers the superset, which it returns, under its hash as the one new
\* set, and the superset holds every transaction of the removed sets; no
\* call takes a transaction out of the pool.
C20_MergeReplacesConflicts ==
    [][/\ MergeStep =>
              LET out == ret'.out
                  id == SetID(out.superset)
              IN  /\ out.supersetMap \subseteq DOMAIN transactionSets
                  /\ out.supersetMap \cap DOMAIN transactionSets' = {}
                  /\ out.supersetMap \cap DOMAIN transactionSetDiffs' = {}
                  /\ id \notin DOMAIN transactionSets
                  /\ DOMAIN transactionSets' =
                         (DOMAIN transactionSets \ out.supersetMap) \cup {id}
                  /\ transactionSets'[id] = out.superset
                  /\ \A c \in out.supersetMap :
                         Range(transactionSets[c]) \subseteq Range(out.superset)
       /\ SubmitStep => Pooled \subseteq Pooled'
      ]_vars

\* A superset has replaced the set it was merged with, next to a set the
\* merge did not touch.
C20_Witness ==
    /\ RetMerged
    /\ ret.out.supersetMap # {}
    /\ ret.out.supersetMap \cap DOMAIN transactionSets = {}
    /\ SetID(ret.out.superset) \in DOMAIN transactionSets
    /\ Cardinality(DOMAIN transactionSets) >= 2

\* The sets, their diffs, the object index and the byte count agree.
PoolConsistent ==
    /\ transactionListSize = SumEncodedLen(DOMAIN transactionSets)
    /\ DOMAIN transactionSetDiffs = DOMAIN transactionSets
    /\ \A o \in DOMAIN knownObjects : knownObjects[o] \in DOMAIN transactionSets

C18_BroadcastAfterSuccess ==
    [][/\ inFlight' > inFlight =>
              /\ inFlight' = inFlight + 1
              /\ UNCHANGED poolVars
              /\ \E p \in Tasks :
                     /\ task[p].pc = "submitted" /\ task[p].ok
                     /\ task[p].plan = Idle.out
                     /\ task[p].sent = 0 /\ task'[p].sent = 1
                     /\ ~Holds(p, outerMu) /\ ~Holds(p, innerMu)
       /\ \A p \in Tasks :
              /\ (task[p].pc # "idle" /\ task'[p].pc = "idle") =>
                     task[p].sent = (IF task[p].ok THEN 1 ELSE 0)
              /\ task[p].pc = "return" => ENABLED ReturnNil(p)
      ]_vars

\* A task has returned from an accepted submission while the Broadcast call
\* it started is still running.
C18_Witness ==
    /\ inFlight = 1
    /\ \A p \in Tasks : task[p].pc = "idle"
    /\ transactionSets # EmptyMap

\* What is left of a candidate once the transactions of the sets it
\* conflicts with are taken out of it.
Remainder(cand) ==
    LET conflicts == FindConflicts(relatedObjectIDs(cand))
        pooled == UNION {Range(SetTxns(c)) : c \in conflicts}
    IN  SelectSeq(cand, LAMBDA t : t \notin pooled)

\* The supersets a merge of the given sets with the remainder can build.
Supersets(ids, rem) == {Concat(order, 1) \o rem : order \in Orders(ids)}

\* C21: a superset is admitted only if the fees of all its transactions
\* reach the fee per byte of the pool as it is before the merge times the
\* size of the superset; a call the conflict handler refuses for low fees
\* had a superset whose fees fall short of that, and the sets it would have
\* replaced stay registered.  This holds at every state of every behaviour.
C21_SupersetPricedWhole ==
    [](/\ BetweenCalls =>
              \A ts \in Candidates :
                  \A out \in acceptTransactionSet(ts) :
                      out.path = "merge" =>
                          /\ out.err = "" =>
                                 /\ out.superset \in Supersets(out.supersetMap, out.dedup)
                                 /\ setFees(out.superset) >= FeeDue(out.superset)
                          /\ out.err = errLowMinerFees =>
                                 \E s \in Supersets(out.supersetMap,
                                                    Remainder(Unconfirmed(ts))) :
                                     setFees(s) < FeeDue(s)
                          /\ out.err \in {"", ErrConflictInvalid} =>
                                 \A s \in Supersets(out.supersetMap,
                                                    Remainder(Unconfirmed(ts))) :
                                     setFees(s) >= FeeDue(s)
       /\ (ret # Idle /\ ret.out.path = "merge" /\ ret.out.err = errLowMinerFees) =>
              /\ ret.out.supersetMap \subseteq DOMAIN transactionSets
              /\ ret.out.supersetMap \subseteq DOMAIN transactionSetDiffs)

\* A candidate that paid the fee due for itself was refused because the
\* superset built with a pooled set did not pay the fee due for the whole.
C21_Witness ==
    /\ ret # Idle
    /\ ret.out.path = "merge"
    /\ ret.out.err = errLowMinerFees
    /\ ret.out.supersetMap # {}
    /\ FeesAsked

PruneStep ==
    /\ MergeStep
    /\ Len(ret'.out.dedup) < Len(Unconfirmed(ret'.ts))

\* C24: when pruning shrinks the candidate, the conflicts are computed anew
\* from the remainder; the superset is built from these and the remainder and
\* replaces these only, and every set that conflicted with the candidate
\* through pruned transactions alone stays registered under its identifier
\* with its transactions, its diff and its index entries.
C24_PrunedConflictsStay ==
    [][PruneStep =>
          LET out == ret'.out
              cand == Unconfirmed(ret'.ts)
              first == FindConflicts(relatedObjectIDs(cand))
              again == FindConflicts(relatedObjectIDs(out.dedup))
          IN  /\ out.dedup = Remainder(cand)
              /\ out.supersetMap = again
              /\ out.superset \in Supersets(again, out.dedup)
              /\ DOMAIN transactionSets' =
                     (DOMAIN transactionSets \ again) \cup {SetID(out.superset)}
              /\ \A id \in first \ again :
                     /\ id \in DOMAIN transactionSets'
                     /\ transactionSets'[id] = transactionSets[id]
                     /\ transactionSetDiffs'[id] = transactionSetDiffs[id]
                     /\ \A o \in DOMAIN knownObjects :
                            knownObjects[o] = id => knownObjects'[o] = id
      ]_vars

\* With [A] and [B] pooled, the candidate [B, C], where C spends an output of
\* A only, was accepted: [A, C] has replaced [A] and [B] is still registered.
C24_Witness ==
    /\ RetMerged
    /\ ret.ts = <<"B", "C">>
    /\ ret.out.dedup = <<"C">>
    /\ ret.out.supersetMap = {SetID(<<"A">>)}
    /\ SetID(<<"A">>) \notin DOMAIN transactionSets
    /\ SetID(<<"A", "C">>) \in DOMAIN transactionSets
    /\ SetID(<<"B">>) \in DOMAIN transactionSets
    /\ knownObjects["u2"] = SetID(<<"B">>)

\* The candidate has conflicts in the pool, and these hold every one of its
\* transactions.
AllPooled(ts) ==
    LET conflicts == FindConflicts(relatedObjectIDs(ts))
    IN  /\ conflicts # {}
        /\ Range(ts) \subseteq UNION {Range(SetTxns(c)) : c \in conflicts}

DirectStep == SubmitStep /\ ret'.out.err = "" /\ ret'.out.path = "direct"

\* C26: a call accepted on the direct path had a filtered candidate without
\* conflicts that the ledger found valid; it returns the filtered candidate,
\* in the order of the candidate, and registers it under the hash of its
\* encoding as the one new set, every set registered before staying as it was.
C26_DirectAddsOneSet ==
    [][DirectStep =>
          LET out == ret'.out
              cand == Unconfirmed(ret'.ts)
              setID == SetID(cand)
          IN  /\ cand = Restrict(ret'.ts, Txns \ confirmed)
              /\ FindConflicts(relatedObjectIDs(cand)) = {}
              /\ txnFn(cand).ok
              /\ out.superset = cand
              /\ out.supersetMap = {}
              /\ setID \notin DOMAIN transactionSets
              /\ DOMAIN transactionSets' = DOMAIN transactionSets \cup {setID}
              /\ transactionSets'[setID] = cand
              /\ \A id \in DOMAIN transactionSets :
                     /\ transactionSets'[id] = transactionSets[id]
                     /\ transactionSetDiffs'[id] = transactionSetDiffs[id]
      ]_vars

\* A candidate of two transactions, one of them in a registered set already,
\* was installed directly next to that set.
C26_Witness ==
    /\ RetAccepted
    /\ ret.out.path = "direct"
    /\ Len(ret.out.superset) = 2
    /\ SetID(ret.out.superset) \in DOMAIN transactionSets
    /\ \E id \in DOMAIN transactionSets :
           /\ id # SetID(ret.out.superset)
           /\ Range(transactionSets[id]) \cap Range(ret.out.superset) # {}

\* The step is a call that was accepted, on either path.
AcceptStep == SubmitStep /\ ret'.out.err = ""

ObjectsIndexed ==
    \A id \in DOMAIN transactionSets :
        \A o \in relatedObjectIDs(transactionSets[id]) :
            o \in DOMAIN knownObjects /\ knownObjects[o] = id

\* The objects of the registered sets.
PooledObjects ==
    UNION {relatedObjectIDs(transactionSets[id]) : id \in DOMAIN transactionSets}

SetsHolding(t) == {id \in DOMAIN transactionSets : t \in Range(transactionSets[id])}

\* C29: no transaction occurs in two registered sets, whether or not it
\* touches a ledger object.
C29_OneSetPerTransaction == \A t \in Txns : Cardinality(SetsHolding(t)) <= 1

\* The checks of acceptTransactionSet that come before the conflict
\* detection: the candidate is not empty, the confirmed filter leaves
\* something, and what it leaves passes the composition and the fee tests.
ChecksPassed(ts) ==
    LET cand == Unconfirmed(ts)
    IN  /\ Len(ts) > 0
        /\ Len(cand) > 0
        /\ checkTransactionSetComposition(cand).err = ""
        /\ setFees(cand) >= FeeDue(cand)

\* C23: in one submission, txnFn is called only for a candidate that has
\* passed the empty test, the confirmed filter, the composition test and the
\* fee test; the pool is written only by a task whose txnFn call has
\* succeeded; the subscribers are notified only once the writes are done; and
\* the Broadcast call is started only after the notification.
C23_StepOrder ==
    [][/\ \A p \in Tasks :
              /\ task[p].pc = "accept" =>
                     \A ts \in ConcInputs :
                         \A out \in acceptTransactionSet(ts) :
                             out.validated = 1 => ChecksPassed(ts)
              /\ (task[p].pc = "accept" /\ task'[p].pc = "install") =>
                     /\ ChecksPassed(task'[p].ts)
                     /\ task'[p].plan.validated = 1
                     /\ UNCHANGED poolVars
              /\ (task'[p].pc = "notify" /\ task[p].pc # "notify") =>
                     /\ task[p].pc \in {"install", "add"}
                     /\ poolVars' # poolVars
                     /\ SetID(task[p].plan.superset) \in DOMAIN transactionSets'
              /\ (task'[p].notified /\ ~task[p].notified) =>
                     /\ task[p].pc = "notify"
                     /\ task[p].ok
                     /\ UNCHANGED poolVars
              /\ task'[p].sent > task[p].sent =>
                     task[p].pc = "submitted" /\ task[p].notified
              /\ (task[p].pc = "submitted" /\ ~task[p].ok) => ~task[p].notified
       /\ poolVars' # poolVars =>
              \/ csMu = {Ledger}
              \/ \E p \in Tasks :
                     /\ task[p].pc \in {"install", "add"}
                     /\ task[p].plan.err = ""
                     /\ task[p].plan.validated = 1
                     /\ task'[p].pc \in {"add", "notify"}
      ]_vars

\* A task has written the pool, notified the subscribers, released its locks
\* and started the Broadcast call.
C23_Witness ==
    \E p \in Tasks :
        /\ task[p].pc = "return"
        /\ task[p].notified
        /\ task[p].sent = 1
        /\ inFlight = 1
        /\ transactionSets # EmptyMap

\* The outcome a task is about to install is an outcome a call made alone in
\* the present state would have for its candidate.
PlanCurrent(p) ==
    task[p].pc = "install" => task[p].plan \in acceptTransactionSet(task[p].ts)

\* The task is inside AcceptTransactionSet past the return of
\* acceptTransactionSet.
Decided(p) == task[p].pc \notin {"idle", "lockOuter", "lockInner", "accept"}

\* C30: concurrent submissions take effect one at a time.  From the decision
\* on a candidate to the end of its pool writes the decision stays the one a
\* call made alone would take, and neither the pool nor the ledger is changed
\* by anyone else; the writes of a call amount to those of one call made
\* alone, a refused call writes nothing, and the result a task returns is the
\* one decided.
C30_Serializable ==
    [][\A p \in Tasks :
          /\ PlanCurrent(p)
          /\ (Installing(p) /\ (poolVars' # poolVars \/ ledgerVars' # ledgerVars)) =>
                 /\ task'[p] # task[p]
                 /\ \A q \in Tasks \ {p} : task'[q] = task[q]
          /\ (task[p].pc = "accept" /\ task'[p].pc # "accept") =>
                 /\ UNCHANGED <<poolVars, ledgerVars>>
                 /\ IF task'[p].ok
                    THEN /\ task'[p].pc = "install"
                         /\ task'[p].ts \in ConcInputs
                         /\ task'[p].plan.err = ""
                         /\ task'[p].plan \in acceptTransactionSet(task'[p].ts)
                    ELSE task'[p].pc = "unlockInner"
          /\ (task[p].pc = "install" /\ task'[p].pc = "notify") =>
                 \E plan \in acceptTransactionSet(task[p].ts) :
                     plan.err = "" /\ Commit(plan)
          /\ (task[p].pc = "install" /\ task'[p].pc = "add") =>
                 /\ EvictConflicts(task[p].plan)
                 /\ task'[p].plan = [task[p].plan EXCEPT !.supersetMap = {}]
          /\ (task[p].pc = "add" /\ task'[p].pc = "notify") =>
                 Commit(task[p].plan)
          /\ (Decided(p) /\ task'[p].pc # "idle") => task'[p].ok = task[p].ok
          /\ (Decided(p) /\ ~Installing(p) /\ task'[p] # task[p]) =>
                 UNCHANGED <<poolVars, ledgerVars>>
      ]_vars

\* While one task is about to install a merge with a set that another task
\* has had accepted, that other task has not yet returned.
C30_Witness ==
    \E p \in Tasks : \E q \in Tasks \ {p} :
        /\ task[p].pc = "install"
        /\ task[p].plan.path = "merge"
        /\ task[p].plan.supersetMap # {}
        /\ task[q].pc \in {"submitted", "return"}
        /\ task[q].ok


---------------------------------------------------------------------------
(* The ring caches. *)

\* The ids of the index, earliest insertion first.
InsertionOrder == [i \in 1..Len(cacheOrder) |-> cacheOrder[i].id]
Full == Cardinality(DOMAIN cacheIndex) = CacheSize
PushStep == cacheRet'.op = "push"
LookupStep == cacheRet'.op = "lookup"

C37_NotFullEvictsNothing ==
    ~cachePushed.full =>
        \A id \in DOMAIN cachePushed.first :
            Lookup(id) = [sco |-> cachePushed.first[id], ok |-> TRUE]

\* C38: a Push of an id that is present changes nothing: the index, the
\* slots, the tip and the eviction order stay as they are, and Lookup returns
\* what it returned before, also when the Push carried another value.
C38_PushPresentNoChange ==
    [][\A id \in CacheIDs :
          (PushStep /\ cacheRet'.id = id /\ id \in DOMAIN cacheIndex)
              => /\ UNCHANGED <<cacheIndex, cacheOutputs, cacheTip, cacheOrder>>
                 /\ Lookup(id)' = Lookup(id)
                 /\ ~cacheRet'.ok]_vars

\* An id that is present was pushed again with a value other than the stored one.
C38_PushedAgain ==
    /\ cacheRet.op = "push"
    /\ ~cacheRet.ok
    /\ Lookup(cacheRet.id).ok
    /\ Lookup(cacheRet.id).sco # cacheRet.sco

\* C39: the index and the slots agree: the slot of every id of the index holds
\* that id and the value stored for it last, no two ids have the same slot, no
\* two written slots hold the same id, and Lookup succeeds exactly for the ids
\* of the index, with the value stored last.
C39_IndexSlotsAgree ==
    /\ \A id \in DOMAIN cacheIndex :
           /\ cacheIndex[id] \in Slots
           /\ cacheOutputs[cacheIndex[id]].id = id
           /\ \E i \in 1..Len(cacheOrder) :
                  cacheOrder[i] = cacheOutputs[cacheIndex[id]]
    /\ \A a, b \in DOMAIN cacheIndex : a # b => cacheIndex[a] # cacheIndex[b]
    /\ \A i, j \in Slots :
           (i # j /\ Written(i) /\ Written(j))
               => cacheOutputs[i].id # cacheOutputs[j].id
    /\ \A id \in CacheIDs :
           /\ Lookup(id).ok <=> id \in DOMAIN cacheIndex
           /\ Lookup(id).ok =>
                  (\E i \in 1..Len(cacheOrder) :
                       cacheOrder[i] = [id |-> id, sco |-> Lookup(id).sco])


---------------------------------------------------------------------------
(* Termination of a submission. *)

HoldsNone(p) == p \notin csMu \cup outerMu \cup innerMu

\* The locks of the pool go back inner first: the inner lock is let go while
\* the outer one is still held, and the outer one only once the inner one is
\* free of the task; submitTransactionSet returns holding nothing.
ReleaseOrder(p) ==
    /\ (p \in innerMu /\ p \notin innerMu') => p \in outerMu /\ p \in outerMu'
    /\ (p \in outerMu /\ p \notin outerMu') => p \notin innerMu
    /\ (~At(p, "submitted") /\ task'[p].pc = "submitted") => HoldsNone(p)'

\* C31: every submission gives back both locks of the pool, the inner one
\* first and then the outer one, whether it succeeded or failed; with txnFn
\* returning and locks granted fairly, a submission that has entered the try
\* section returns, and the ledger's lock keeps becoming free for the next.
C31_LocksReleasedAndReturns ==
    /\ [][\A p \in Tasks : ReleaseOrder(p)]_vars
    /\ [](\A p \in Tasks : (At(p, "submitted") \/ At(p, "return") \/ At(p, "idle"))
                               => HoldsNone(p))
    /\ \A p \in Tasks : (~At(p, "idle")) ~> At(p, "idle")
    /\ []<>(csMu = {})

\* A submission has failed and returned holding nothing, while another task
\* was waiting for the outer lock behind the ledger's.
C31_FailedAndReleased ==
    \E p, q \in Tasks :
        /\ p # q
        /\ At(p, "submitted") /\ ~task[p].ok /\ HoldsNone(p)
        /\ At(q, "lockOuter")


---------------------------------------------------------------------------
(* The relay ingress and the thread group. *)

\* The handler waits for bytes of the peer.
Reading(p) == AtRelay(p, "prefix") \/ AtRelay(p, "decode")

\* C32: the relay ingress has read and decoded the whole set before it enters
\* the try section of the ledger or takes a lock of the pool: a task that
\* waits for bytes of a peer holds no lock, and a task enters the try section
\* only with every announced transaction decoded.
C32_ReadsBeforeLocks ==
    /\ [](\A p \in Tasks : Reading(p) => HoldsNone(p) /\ At(p, "idle"))
    /\ [][\A p \in Tasks :
             (HoldsNone(p) /\ ~HoldsNone(p)')
                 => /\ AtRelay(p, "submit")
                    /\ relay[p].n = Len(relay[p].ts) \/ relay[p].conn = "none"]_vars

\* The peer has announced a transaction and not delivered it, while a local
\* submission is inside acceptTransactionSet under both locks of the pool.
C32_PeerStallsOthersRun ==
    \E p \in RelayTasks, q \in LocalTasks :
        /\ AtRelay(p, "decode") /\ relay[p].n < Len(relay[p].ts)
        /\ At(q, "install") /\ q \in innerMu /\ q \in outerMu

\* A handler or a call ends with an error.
FailsNow(p) == ~AtRelay(p, "returned") /\ relay'[p].pc = "returned" /\ relay'[p].err # ""

\* C33: the relay ingress calls submitTransactionSet at most once for a
\* connection and not at all when a transaction failed to decode; the error of
\* the decoder or of the submission is what the handler returns, nothing is
\* submitted again, and the failing handler has written nothing to the pool.
C33_OneSubmitNoRetry ==
    /\ [](\A p \in Tasks :
             /\ relay[p].calls <= 1
             /\ relay[p].err = "decode" => relay[p].calls = 0
             /\ (At(p, "install") \/ At(p, "add") \/ At(p, "notify")) => task[p].ok)
    /\ [][\A p \in Tasks :
             /\ FailsNow(p)
                 => /\ UNCHANGED poolVars
                    /\ relay'[p].calls = relay[p].calls
                    /\ AtRelay(p, "decode") => relay'[p].err = "decode"
                    /\ AtRelay(p, "submitting")
                           => /\ relay'[p].err = "submit"
                              /\ ~task[p].ok /\ ~task[p].notified
             /\ (task'[p] # task[p] /\ poolVars' # poolVars)
                 => task[p].ok /\ (At(p, "install") \/ At(p, "add"))
             /\ (AtRelay(p, "returned") /\ relay'[p] # relay[p])
                 => relay'[p].pc \in {"returned", "none"}]_vars

\* The handler of a connection has returned the error of its one submission.
C33_SubmitErrorReturned ==
    \E p \in RelayTasks :
        /\ AtRelay(p, "returned")
        /\ relay[p].err = "submit"
        /\ relay[p].calls = 1
        /\ relay[p].n = 1

\* The deadline of the connection is set: the handler is past SetDeadline.
DeadlineSet(p) ==
    /\ relay[p].conn # "none"
    /\ \/ relay[p].pc \in {"prefix", "decode", "accept", "submit", "submitting"}
       \/ AtRelay(p, "returned") /\ relay[p].err \in {"", "decode", "submit"}
       \/ AtRelay(p, "returned") /\ relay[p].err = "stopped" /\ relay[p].watcher # "none"

\* C34: once the deadline of the connection is set, a watcher exists; the
\* connection is closed by the watcher and by nothing else, when the handler
\* has returned or the thread group was stopped; and with the reads bounded
\* by the deadline and the locks granted fairly the connection is closed in
\* the end and the watcher has ended.
C34_ConnEventuallyClosed ==
    /\ [](\A p \in Tasks : DeadlineSet(p) => relay[p].watcher # "none")
    /\ [][\A p \in Tasks :
             (relay[p].conn = "open" /\ relay'[p].conn = "closed")
                 => /\ relay[p].watcher = "waiting" /\ relay'[p].watcher = "done"
                    /\ stopped \/ AtRelay(p, "returned")]_vars
    /\ \A p \in RelayTasks :
             DeadlineSet(p) ~> (relay[p].conn = "closed" /\ relay[p].watcher = "done")

\* The handler returned nil without a stop, and the watcher closed the
\* connection after it.
C34_ClosedAfterReturn ==
    \E p \in RelayTasks :
        /\ ~stopped
        /\ AtRelay(p, "returned") /\ relay[p].err = ""
        /\ relay[p].conn = "closed" /\ relay[p].watcher = "done"

\* C35: with the thread group stopped, relayTransactionSet and
\* AcceptTransactionSet return the error of tg.Add at once: nothing is read
\* from the peer, no lock is taken, neither txnFn nor Broadcast is called, and
\* the pool is as it was.
C35_StoppedReturnsAtOnce ==
    /\ [][\A p \in Tasks :
             /\ (stopped /\ AtRelay(p, "none") /\ relay'[p].conn = "open")
                 => /\ relay'[p] = [NoConn EXCEPT !.pc = "returned", !.conn = "open",
                                                  !.err = "stopped"]
                    /\ UNCHANGED admissionVars
             /\ (stopped /\ AtRelay(p, "accept") /\ relay'[p].pc # "accept")
                 => /\ relay'[p] = [relay[p] EXCEPT !.pc = "returned", !.err = "stopped"]
                    /\ UNCHANGED admissionVars]_vars
    /\ [](\A p \in Tasks :
             relay[p].err = "stopped"
                 => /\ stopped
                    /\ relay[p].calls = 0
                    /\ task[p] = Resting
                    /\ HoldsNone(p))

\* After the stop a connection was refused with nothing read, and a local
\* call was refused too.
C35_BothRefused ==
    \E p \in RelayTasks, q \in LocalTasks :
        /\ stopped
        /\ AtRelay(p, "returned") /\ relay[p].err = "stopped" /\ relay[p].watcher = "none"
        /\ AtRelay(q, "returned") /\ relay[q].err = "stopped"


==========================================================================
